---- MODULE Spec2Model ----
(***************************************************************************)
(* A model of prompterdb: the schema cache, the store registry, the query  *)
(* validators and the Ask pipeline.  Texts are TLA+ strings and the string *)
(* functions of Go's strings package are computed character by character.  *)
(***************************************************************************)
EXTENDS Integers, Sequences, FiniteSets, TLC

VARIABLES
    sqlQuery,       \* ValidateSQL: the text handed to the validator
    sqlErr,         \* ValidateSQL: its result ("pending" before the call)
    mongoText,      \* ValidateMongo: the text handed to the validator
    mongoErr,       \* ValidateMongo: its result ("pending" before the call)
    schemaCache,    \* cache.schemaCache: store name -> schema text
    cacheCall,      \* the last call on the schema cache and what it returned
    refMap,         \* the reference map the cache is compared with
    snap,           \* the mapping GetAllCachedSchemas returned, as its caller holds it
    schemaCacheMu,  \* cache.schemaCacheMu: the writer and the readers holding it
    gor,            \* the goroutines calling the cache: goroutine -> its call
    RegisteredDBs,  \* config.RegisteredDBs: store name -> DBConfig
    pgPools,        \* db.pgPools: the names that have a connection pool
    MongoClients,   \* db.MongoClients: the names that have a client
    MongoDBs,       \* db.MongoDBs: store name -> DBConfig, set on connect
    mongoSchemaCache, \* db.mongoSchemaCache: store name -> schema text
    intro,          \* the introspection in progress
    ask,            \* the Ask call in progress
    route,          \* the Route call in progress and its store evaluations
    cancelled,      \* the caller of Ask has cancelled the call in progress
    llmClient,      \* the generation-backend client the Ask calls are given
    reg,            \* per goroutine, its call that touches the registry map
    fatal,          \* the Go runtime has stopped the program (map fault)
    storeSchema,    \* per store, the schema text the store answers at present
    gen             \* a generation output and the fence tag it is wrapped with

sqlVars == <<sqlQuery, sqlErr>>

mongoVars == <<mongoText, mongoErr>>

lockVars == <<schemaCacheMu, gor>>

cacheVars == <<schemaCache, cacheCall, refMap, snap>>

connVars == <<RegisteredDBs, pgPools, MongoClients, MongoDBs>>

callVars == <<cancelled, llmClient>>

regVars == <<reg, fatal>>

progVars ==
    <<connVars, mongoSchemaCache, intro, ask, route, callVars, regVars, storeSchema>>

vars == <<sqlVars, gen, mongoVars, cacheVars, lockVars, progVars>>

(***************************************************************************)
(* Go's strings package                                                    *)
(***************************************************************************)
Nil == "nil"

UpperChars == "ABCDEFGHIJKLMNOPQRSTUVWXYZ"

LowerChars == "abcdefghijklmnopqrstuvwxyz"

Ch(s, i) == SubSeq(s, i, i)

IsSpace(c) == c \in {" ", "\n", "\t", "\r"}

LowerOf(c) ==
    IF \E i \in 1..26 : Ch(UpperChars, i) = c
    THEN Ch(LowerChars, CHOOSE i \in 1..26 : Ch(UpperChars, i) = c)
    ELSE c

RECURSIVE ToLower(_)
ToLower(s) == IF s = "" THEN "" ELSE LowerOf(Ch(s, 1)) \o ToLower(Tail(s))

RECURSIVE TrimLeft(_)
TrimLeft(s) == IF s # "" /\ IsSpace(Ch(s, 1)) THEN TrimLeft(Tail(s)) ELSE s

RECURSIVE TrimRight(_)
TrimRight(s) ==
    IF s # "" /\ IsSpace(Ch(s, Len(s)))
    THEN TrimRight(SubSeq(s, 1, Len(s) - 1))
    ELSE s

TrimSpace(s) == TrimRight(TrimLeft(s))

HasPrefix(s, p) == Len(s) >= Len(p) /\ SubSeq(s, 1, Len(p)) = p

HasSuffix(s, p) == Len(s) >= Len(p) /\ SubSeq(s, Len(s) - Len(p) + 1, Len(s)) = p

Contains(s, sub) ==
    \E i \in 1..(Len(s) - Len(sub) + 1) : SubSeq(s, i, i + Len(sub) - 1) = sub

(***************************************************************************)
(* llm/validator.go: ValidateSQL                                           *)
(***************************************************************************)
blocked_NoTruncate == <<"drop", "alter", "delete", "create", "grant", "revoke">>

blocked == <<"drop", "truncate", "alter", "delete", "create", "grant", "revoke">>

validOps == <<"select", "insert", "update">>

ValidateSQL(query) ==
    LET q == ToLower(TrimSpace(query))
        hits == {i \in 1..Len(blocked) : Contains(q, blocked[i])}
    IN  IF hits # {}
        THEN "query contains forbidden operation: "
                \o blocked[CHOOSE i \in hits : \A j \in hits : i <= j]
        ELSE IF \E i \in 1..Len(validOps) : HasPrefix(q, validOps[i])
        THEN Nil
        ELSE "you are not allowed to perform this operation"

(***************************************************************************)
(* Inputs of the relational validator: up to MaxWords words joined by a    *)
(* blank, inside leading and trailing whitespace.                          *)
(***************************************************************************)
MaxWords == 2

SQLWords == {"select", "SELECT", "SeLeCt", "insert", "Update", "drop", "DROP",
             "backDrOp", "Truncate", "ALTER", "delete", "created_at", "GRANT",
             "revoke", "*", "t"}

SQLPads == {"", " \n\t"}

RECURSIVE JoinWords(_)
JoinWords(ws) ==
    IF ws = <<>> THEN ""
    ELSE IF Len(ws) = 1 THEN ws[1]
    ELSE ws[1] \o " " \o JoinWords(Tail(ws))

SQLTexts ==
    {l \o JoinWords(ws) \o r :
        l \in SQLPads, r \in SQLPads,
        ws \in UNION {[1..n -> SQLWords] : n \in 0..MaxWords}}

IdleSQL == sqlQuery = "" /\ sqlErr = "pending"

CallValidateSQL ==
    /\ sqlErr = "pending"
    /\ sqlErr' = ValidateSQL(sqlQuery)
    /\ UNCHANGED <<sqlQuery, gen, mongoVars, cacheVars, lockVars, progVars>>

(***************************************************************************)
(* encoding/json.  A JSON value is [t, s]: its type and, for a string, its *)
(* text; t = "absent" stands for a key the object does not have.  A        *)
(* document is the top-level value: an object with the keys of the query   *)
(* envelope (and a second, capitalised "Operation" key written after the   *)
(* others), or a non-object value, or text that is not JSON at all.        *)
(***************************************************************************)
JV(t, s) == [t |-> t, s |-> s]

Absent == JV("absent", "")

JStr(s) == JV("string", s)

JNum == JV("number", "")

JNull == JV("null", "")

JObj == JV("object", "")

JArr == JV("array", "")

EnvelopeKeys == <<"operation", "collection", "filter", "document", "update",
                  "pipeline", "Operation">>

OperationValues == {Absent, JStr("find"), JStr("insert"), JStr("update"),
                    JStr("delete"), JStr("aggregate"), JStr("drop"), JStr(""),
                    JNum}

CollectionValues == {Absent, JStr("orders"), JStr("courses"), JStr(""), JNum}

JSONObjects ==
    [kind : {"object"},
     operation : OperationValues,
     collection : CollectionValues,
     filter : {Absent, JObj, JNull, JNum},
     document : {Absent, JObj},
     update : {Absent, JObj},
     pipeline : {Absent, JArr},
     Operation : {Absent, JStr("delete")}]

NonObject(k) ==
    [kind |-> k, operation |-> Absent, collection |-> Absent, filter |-> Absent,
     document |-> Absent, update |-> Absent, pipeline |-> Absent,
     Operation |-> Absent]

JSONDocs == JSONObjects \cup {NonObject("null"), NonObject("array")}

EncodeValue(v) ==
    CASE v.t = "string" -> "\"" \o v.s \o "\""
      [] v.t = "number" -> "5"
      [] v.t = "null" -> "null"
      [] v.t = "object" -> "{}"
      [] v.t = "array" -> "[]"

RECURSIVE EncodeMembers(_, _, _)
EncodeMembers(d, i, first) ==
    IF i > Len(EnvelopeKeys) THEN ""
    ELSE LET k == EnvelopeKeys[i]
         IN  IF d[k].t = "absent" THEN EncodeMembers(d, i + 1, first)
             ELSE (IF first THEN "" ELSE ",")
                    \o "\"" \o k \o "\":" \o EncodeValue(d[k])
                    \o EncodeMembers(d, i + 1, FALSE)

Encode(d) ==
    CASE d.kind = "object" -> "{" \o EncodeMembers(d, 1, TRUE) \o "}"
      [] d.kind = "null" -> "null"
      [] d.kind = "array" -> "[]"

EncodedDocs == {<<Encode(d), d>> : d \in JSONDocs}

\* The decoder skips the whitespace around the value; text that encodes no
\* document is a syntax error.
Decode(text) ==
    LET t == TrimSpace(text)
        hits == {p \in EncodedDocs : p[1] = t}
    IN  IF hits # {} THEN (CHOOSE p \in hits : TRUE)[2] ELSE NonObject("invalid")

(***************************************************************************)
(* llm/validator.go: ValidateMongo.  json.Unmarshal into a map fails on a  *)
(* syntax error and on a value that is not an object; null leaves the map  *)
(* nil.  Map keys are exact, so "Operation" is not "operation".            *)
(***************************************************************************)
allowedOps_WithDelete == <<"find", "insert", "update", "delete", "aggregate">>

allowedOps_WithDrop == <<"find", "insert", "update", "aggregate", "drop">>

allowedOps == <<"find", "insert", "update", "aggregate">>

Has(mongoQuery, k) == mongoQuery[k].t # "absent"

\* lines 50-59: both required keys must be in the map
requiredError(mongoQuery) ==
    IF ~Has(mongoQuery, "operation")
    THEN "missing required field: operation"
    ELSE IF ~Has(mongoQuery, "collection")
    THEN "missing required field: collection"
    ELSE Nil

\* the switch of lines 77-97, with the update case checking filter only
companionError_UpdateFilterOnly(mongoQuery) ==
    LET opStr == mongoQuery.operation.s
    IN  IF opStr = "find" /\ ~Has(mongoQuery, "filter")
        THEN "find operation requires filter field"
        ELSE IF opStr = "insert" /\ ~Has(mongoQuery, "document")
        THEN "insert operation requires document field"
        ELSE IF opStr = "update" /\ ~Has(mongoQuery, "filter")
        THEN "update operation requires filter field"
        ELSE IF opStr = "aggregate" /\ ~Has(mongoQuery, "pipeline")
        THEN "aggregate operation requires pipeline field"
        ELSE Nil

\* lines 76-97: the companion fields of the operation
companionError(mongoQuery) ==
    LET opStr == mongoQuery.operation.s
    IN  IF opStr = "find" /\ ~Has(mongoQuery, "filter")
        THEN "find operation requires filter field"
        ELSE IF opStr = "insert" /\ ~Has(mongoQuery, "document")
        THEN "insert operation requires document field"
        ELSE IF opStr = "update" /\ ~Has(mongoQuery, "filter")
        THEN "update operation requires filter field"
        ELSE IF opStr = "update" /\ ~Has(mongoQuery, "update")
        THEN "update operation requires update field"
        ELSE IF opStr = "aggregate" /\ ~Has(mongoQuery, "pipeline")
        THEN "aggregate operation requires pipeline field"
        ELSE Nil

\* lines 61-100: the operation must be a string of allowedOps
operationError(mongoQuery) ==
    LET operation == mongoQuery.operation
    IN  IF operation.t # "string"
        THEN "operation must be a string"
        ELSE IF ~\E i \in 1..Len(allowedOps) : operation.s = allowedOps[i]
        THEN "invalid operation: " \o operation.s
        ELSE companionError(mongoQuery)

collectionError_Untyped(mongoQuery) == Nil

\* lines 102-105: the collection must be a string (an empty one passes)
collectionError(mongoQuery) ==
    IF mongoQuery.collection.t # "string"
    THEN "collection must be a string"
    ELSE Nil

ValidateMongo(query) ==
    LET mongoQuery == Decode(query)
    IN  IF mongoQuery.kind \in {"invalid", "array"}
        THEN "invalid JSON format"
        ELSE IF requiredError(mongoQuery) # Nil
        THEN requiredError(mongoQuery)
        ELSE IF operationError(mongoQuery) # Nil
        THEN operationError(mongoQuery)
        ELSE collectionError(mongoQuery)

MongoTexts == {p[1] : p \in EncodedDocs} \cup {"not json"}

IdleMongo == mongoText = "" /\ mongoErr = "pending"

CallValidateMongo ==
    /\ mongoErr = "pending"
    /\ mongoErr' = ValidateMongo(mongoText)
    /\ UNCHANGED <<mongoText, sqlVars, gen, cacheVars, lockVars, progVars>>

(***************************************************************************)
(* cache/schema_cache.go.  A Go map is a function on the set of its keys.  *)
(* Every function below runs its body holding schemaCacheMu (Lock for the  *)
(* writers, RLock for the readers), so a call is one step.                 *)
(***************************************************************************)
EmptyMap == <<>>

MapPut(m, k, v) == [x \in DOMAIN m \cup {k} |-> IF x = k THEN v ELSE m[x]]

CacheSchema_NoGuard(cache, dbName, schema) == MapPut(cache, dbName, schema)

CacheSchema(cache, dbName, schema) ==
    IF dbName = "" THEN cache ELSE MapPut(cache, dbName, schema)

GetCachedSchema(cache, dbName) ==
    IF dbName = "" THEN [schema |-> "", ok |-> FALSE]
    ELSE IF dbName \in DOMAIN cache THEN [schema |-> cache[dbName], ok |-> TRUE]
    ELSE [schema |-> "", ok |-> FALSE]

GetAllCachedSchemas(cache) == [k \in DOMAIN cache |-> cache[k]]

\* the map object GetAllCachedSchemas hands out: "shared" says that it is the
\* object the cache itself writes to
Snapshot_Aliased(cache) == [held |-> TRUE, shared |-> TRUE, m |-> cache]

\* lines 46-51: a map made by the call, filled entry by entry
Snapshot(cache) == [held |-> TRUE, shared |-> FALSE, m |-> GetAllCachedSchemas(cache)]

NoSnap == [held |-> FALSE, shared |-> FALSE, m |-> EmptyMap]

\* a write of the cache as the holder of a map object sees it
Seen(s, cache) == IF s.shared THEN [s EXCEPT !.m = cache] ELSE s

ClearCache(cache) == EmptyMap

GetCacheSize(cache) == Cardinality(DOMAIN cache)

StoreNames == {"students_db", "lms_db"}

SchemaTexts == {"", "students(id, name, age)", "courses(title, duration)"}

NoCall == [op |-> "none", name |-> "", text |-> "", ok |-> FALSE, size |-> 0, all |-> EmptyMap]

\* the reference map of the cache contract
RefPut(m, name, text) == IF name = "" THEN m ELSE MapPut(m, name, text)

Put(name, text) ==
    /\ schemaCache' = CacheSchema(schemaCache, name, text)
    /\ refMap' = RefPut(refMap, name, text)
    /\ cacheCall' = [NoCall EXCEPT !.op = "Put", !.name = name, !.text = text]
    /\ snap' = Seen(snap, schemaCache')

Get(name) ==
    /\ cacheCall' = [NoCall EXCEPT !.op = "Get", !.name = name,
                        !.text = GetCachedSchema(schemaCache, name).schema,
                        !.ok = GetCachedSchema(schemaCache, name).ok]
    /\ UNCHANGED <<schemaCache, refMap, snap>>

GetAll ==
    /\ cacheCall' = [NoCall EXCEPT !.op = "GetAll", !.all = GetAllCachedSchemas(schemaCache)]
    /\ snap' = Snapshot(schemaCache)
    /\ UNCHANGED <<schemaCache, refMap>>

Size ==
    /\ cacheCall' = [NoCall EXCEPT !.op = "Size", !.size = GetCacheSize(schemaCache)]
    /\ UNCHANGED <<schemaCache, refMap, snap>>

Clear ==
    /\ schemaCache' = ClearCache(schemaCache)
    /\ refMap' = EmptyMap
    /\ cacheCall' = [NoCall EXCEPT !.op = "Clear"]
    /\ snap' = [snap EXCEPT !.shared = FALSE]

\* the caller of GetAllCachedSchemas sets or deletes an entry of the map it
\* was given
MapDelete(m, k) == [x \in DOMAIN m \ {k} |-> m[x]]

SnapWrite(name, text) ==
    /\ snap.held
    /\ snap' = [snap EXCEPT !.m = MapPut(@, name, text)]
    /\ schemaCache' = IF snap.shared THEN snap'.m ELSE schemaCache
    /\ UNCHANGED <<cacheCall, refMap>>

SnapDelete(name) ==
    /\ snap.held /\ name \in DOMAIN snap.m
    /\ snap' = [snap EXCEPT !.m = MapDelete(@, name)]
    /\ schemaCache' = IF snap.shared THEN snap'.m ELSE schemaCache
    /\ UNCHANGED <<cacheCall, refMap>>

IdleCache ==
    schemaCache = EmptyMap /\ cacheCall = NoCall /\ refMap = EmptyMap /\ snap = NoSnap

(***************************************************************************)
(* cache/schema_cache.go, statement by statement, called by goroutines.    *)
(* schemaCacheMu is a sync.RWMutex: [writer, readers].  A goroutine that   *)
(* has loaded the package variable schemaCache holds that map object; when *)
(* ClearCache binds the variable to a new map, the object it holds is the  *)
(* old one ("stale", with the content "orphan").  refMap is written when a *)
(* writer returns, and "seen" collects the values the reference map had    *)
(* during a call.                                                          *)
(***************************************************************************)
Goroutines == {"g1", "g2"}

NoLock == [writer |-> "", readers |-> {}]

NoGo ==
    [pc |-> "idle", op |-> "none", name |-> "", text |-> "", holds |-> FALSE,
     stale |-> FALSE, orphan |-> EmptyMap, visited |-> {}, result |-> EmptyMap,
     schema |-> "", ok |-> FALSE, size |-> 0, seen |-> {}]

IdleLock == schemaCacheMu = NoLock /\ gor = [g \in Goroutines |-> NoGo]

Writers == {"Put", "Clear"}

Readers == {"Get", "GetAll", "Size"}

\* sync.RWMutex: Lock waits for the writer and the readers to leave, RLock
\* for the writer
CanLock_NoExclusion(mu) == TRUE

CanLock(mu) == mu.writer = "" /\ mu.readers = {}

CanRLock(mu) == mu.writer = ""

\* the map a goroutine reaches through the object it holds
View(g) == IF gor[g].stale THEN gor[g].orphan ELSE schemaCache

\* the values of the reference map during the reads in progress
Observe(calls, m) ==
    [g \in Goroutines |->
        IF calls[g].pc # "idle" /\ calls[g].op \in Readers
        THEN [calls[g] EXCEPT !.seen = @ \cup {m}] ELSE calls[g]]

\* a call begins; lines 17-19 and 29-31: Put and Get without a name return
\* at once
CacheBegin(g, op, name, text) ==
    /\ gor[g].pc = "idle"
    /\ gor' = [gor EXCEPT ![g] =
                  [NoGo EXCEPT !.op = op, !.name = name, !.text = text,
                               !.seen = IF op \in Readers THEN {refMap} ELSE {},
                               !.pc = IF op \in {"Put", "Get"} /\ name = ""
                                      THEN "idle" ELSE "lock"]]
    /\ UNCHANGED <<schemaCache, schemaCacheMu, refMap>>

\* schemaCacheMu.Lock()
CacheLock(g) ==
    /\ gor[g].pc = "lock" /\ gor[g].op \in Writers
    /\ CanLock(schemaCacheMu)
    /\ schemaCacheMu' = [schemaCacheMu EXCEPT !.writer = g]
    /\ gor' = [gor EXCEPT ![g].pc = "body"]
    /\ UNCHANGED <<schemaCache, refMap>>

\* schemaCacheMu.RLock()
CacheRLock(g) ==
    /\ gor[g].pc = "lock" /\ gor[g].op \in Readers
    /\ CanRLock(schemaCacheMu)
    /\ schemaCacheMu' = [schemaCacheMu EXCEPT !.readers = @ \cup {g}]
    /\ gor' = [gor EXCEPT ![g].pc = "body"]
    /\ UNCHANGED <<schemaCache, refMap>>

\* line 23, the map operand of the assignment
PutLoad(g) ==
    /\ gor[g].pc = "body" /\ gor[g].op = "Put"
    /\ gor' = [gor EXCEPT ![g].pc = "store", ![g].holds = TRUE]
    /\ UNCHANGED <<schemaCache, schemaCacheMu, refMap>>

\* line 23, the assignment into the map held
PutStore(g) ==
    /\ gor[g].pc = "store"
    /\ IF gor[g].stale
       THEN /\ gor' = [gor EXCEPT ![g].pc = "unlock", ![g].holds = FALSE,
                          ![g].orphan = CacheSchema(@, gor[g].name, gor[g].text)]
            /\ UNCHANGED schemaCache
       ELSE /\ gor' = [gor EXCEPT ![g].pc = "unlock", ![g].holds = FALSE]
            /\ schemaCache' = CacheSchema(schemaCache, gor[g].name, gor[g].text)
    /\ UNCHANGED <<schemaCacheMu, refMap>>

\* line 61: the variable is bound to a new map; the holders of the old map
\* keep the old map
ClearRebind(g) ==
    /\ gor[g].pc = "body" /\ gor[g].op = "Clear"
    /\ schemaCache' = ClearCache(schemaCache)
    /\ gor' = [h \in Goroutines |->
                  IF h = g THEN [gor[h] EXCEPT !.pc = "unlock"]
                  ELSE IF gor[h].holds /\ ~gor[h].stale
                  THEN [gor[h] EXCEPT !.stale = TRUE, !.orphan = schemaCache]
                  ELSE gor[h]]
    /\ UNCHANGED <<schemaCacheMu, refMap>>

\* line 35
GetRead(g) ==
    /\ gor[g].pc = "body" /\ gor[g].op = "Get"
    /\ gor' = [gor EXCEPT ![g].pc = "unlock",
                          ![g].schema = GetCachedSchema(schemaCache, gor[g].name).schema,
                          ![g].ok = GetCachedSchema(schemaCache, gor[g].name).ok]
    /\ UNCHANGED <<schemaCache, schemaCacheMu, refMap>>

\* line 69
SizeRead(g) ==
    /\ gor[g].pc = "body" /\ gor[g].op = "Size"
    /\ gor' = [gor EXCEPT ![g].pc = "unlock", ![g].size = GetCacheSize(schemaCache)]
    /\ UNCHANGED <<schemaCache, schemaCacheMu, refMap>>

\* lines 46-47: the result map is made and the range over the map begins
GetAllMake(g) ==
    /\ gor[g].pc = "body" /\ gor[g].op = "GetAll"
    /\ gor' = [gor EXCEPT ![g].pc = "copy", ![g].holds = TRUE]
    /\ UNCHANGED <<schemaCache, schemaCacheMu, refMap>>

\* lines 47-49: one entry is copied, or the range ends
GetAllCopy(g) ==
    /\ gor[g].pc = "copy"
    /\ LET left == DOMAIN View(g) \ gor[g].visited
       IN  IF left = {}
           THEN gor' = [gor EXCEPT ![g].pc = "unlock", ![g].holds = FALSE]
           ELSE \E k \in left :
                   gor' = [gor EXCEPT ![g].visited = @ \cup {k},
                                      ![g].result = MapPut(@, k, View(g)[k])]
    /\ UNCHANGED <<schemaCache, schemaCacheMu, refMap>>

\* the deferred Unlock of a writer; the call returns
CacheUnlock(g) ==
    /\ gor[g].pc = "unlock" /\ gor[g].op \in Writers
    /\ schemaCacheMu' = [schemaCacheMu EXCEPT
                            !.writer = IF @ = g THEN "" ELSE @]
    /\ refMap' = IF gor[g].op = "Clear" THEN EmptyMap
                 ELSE RefPut(refMap, gor[g].name, gor[g].text)
    /\ gor' = [Observe(gor, refMap') EXCEPT ![g].pc = "idle"]
    /\ UNCHANGED schemaCache

\* the deferred RUnlock of a reader; the call returns
CacheRUnlock(g) ==
    /\ gor[g].pc = "unlock" /\ gor[g].op \in Readers
    /\ schemaCacheMu' = [schemaCacheMu EXCEPT !.readers = @ \ {g}]
    /\ gor' = [gor EXCEPT ![g].pc = "idle"]
    /\ UNCHANGED <<schemaCache, refMap>>

LockTexts == {"students(id, name, age)"}

(***************************************************************************)
(* More of Go's strings package                                            *)
(***************************************************************************)
TrimPrefix(s, p) == IF HasPrefix(s, p) THEN SubSeq(s, Len(p) + 1, Len(s)) ELSE s

TrimSuffix(s, p) == IF HasSuffix(s, p) THEN SubSeq(s, 1, Len(s) - Len(p)) ELSE s

\* strings.Index, 1-based; 0 when sub does not occur
Index(s, sub) ==
    LET at == {i \in 1..(Len(s) - Len(sub) + 1) : SubSeq(s, i, i + Len(sub) - 1) = sub}
    IN  IF at = {} THEN 0 ELSE CHOOSE i \in at : \A j \in at : i <= j

\* strings.Split(s, "\n")
RECURSIVE Split(_)
Split(s) ==
    LET i == Index(s, "\n")
    IN  IF i = 0 THEN <<s>>
        ELSE <<SubSeq(s, 1, i - 1)>> \o Split(SubSeq(s, i + 1, Len(s)))

\* strings.Join(lines, "\n")
RECURSIVE Join(_)
Join(lines) ==
    IF lines = <<>> THEN ""
    ELSE IF Len(lines) = 1 THEN lines[1]
    ELSE lines[1] \o "\n" \o Join(Tail(lines))

\* strings.Fields
RECURSIVE Fields(_)
Fields(s) ==
    LET t == TrimLeft(s)
        ends == {i \in 1..Len(t) : IsSpace(Ch(t, i))}
        n == IF ends = {} THEN Len(t) + 1 ELSE CHOOSE i \in ends : \A j \in ends : i <= j
    IN  IF t = "" THEN <<>>
        ELSE <<SubSeq(t, 1, n - 1)>> \o Fields(SubSeq(t, n, Len(t)))

(***************************************************************************)
(* config/config.go, db.go, db/postgres.go, db/schema.go: the registry and *)
(* the connections.  A DBConfig is [Name, Type, DBName].                   *)
(***************************************************************************)
Postgres == "postgres"

Mongo == "mongo"

NoDB == [Name |-> "", Type |-> "", DBName |-> ""]

RegisterDB(registry, cfg) == MapPut(registry, cfg.Name, cfg)

\* db.ConnectPostgres: an existing pool is kept; "up" says whether the
\* server can be reached
ConnectPostgres(name, up) ==
    /\ RegisteredDBs' = RegisterDB(RegisteredDBs,
                                   [Name |-> name, Type |-> Postgres, DBName |-> ""])
    /\ pgPools' = IF name # "" /\ (name \in pgPools \/ up)
                  THEN pgPools \cup {name} ELSE pgPools
    /\ UNCHANGED <<MongoClients, MongoDBs>>

ConnectMongo(name, dbName, up) ==
    LET cfg == [Name |-> name, Type |-> Mongo, DBName |-> dbName]
        connects == name # "" /\ name \notin MongoClients /\ up
    IN  /\ RegisteredDBs' = RegisterDB(RegisteredDBs, cfg)
        /\ MongoClients' = IF connects THEN MongoClients \cup {name} ELSE MongoClients
        /\ MongoDBs' = IF connects THEN MapPut(MongoDBs, name, cfg) ELSE MongoDBs
        /\ UNCHANGED pgPools

\* closing also takes the store out of the registry
ClosePostgres_Unregister(name) ==
    /\ pgPools' = pgPools \ {name}
    /\ RegisteredDBs' = MapDelete(RegisteredDBs, name)
    /\ UNCHANGED <<MongoClients, MongoDBs>>

\* db/postgres.go ClosePostgres: the pool is closed and forgotten
ClosePostgres(name) ==
    /\ pgPools' = pgPools \ {name}
    /\ UNCHANGED <<RegisteredDBs, MongoClients, MongoDBs>>

\* db/postgres.go CloseAllPostgres
CloseAllPostgres ==
    /\ pgPools' = {}
    /\ UNCHANGED <<RegisteredDBs, MongoClients, MongoDBs>>

\* db/schema.go CloseMongo: a client that fails to disconnect ("ok" is
\* false) is kept
CloseMongo(name, ok) ==
    LET closes == name \in MongoClients /\ ok
    IN  /\ MongoClients' = IF closes THEN MongoClients \ {name} ELSE MongoClients
        /\ MongoDBs' = IF closes THEN MapDelete(MongoDBs, name) ELSE MongoDBs
        /\ UNCHANGED <<RegisteredDBs, pgPools>>

\* db/schema.go CloseAllMongo: every client is forgotten, also one that
\* failed to disconnect
CloseAllMongo ==
    /\ MongoClients' = {}
    /\ MongoDBs' = [n \in DOMAIN MongoDBs \ MongoClients |-> MongoDBs[n]]
    /\ UNCHANGED <<RegisteredDBs, pgPools>>

(***************************************************************************)
(* The schema accessors.  "live" is what the store answers when it is      *)
(* asked: [err, schema].  Each returns [schema, err] and the cache it      *)
(* leaves behind.                                                          *)
(***************************************************************************)
LiveSchema(name) ==
    IF name = "students_db" THEN "students(id, name, age)"
    ELSE "courses(title, duration)\nlessons(course_id, title)\n"

\* the schema text of a store after its schema has been changed
ChangedSchema(name) ==
    IF name = "students_db" THEN "students(id, name, age, email)"
    ELSE "courses(title)\n"

\* the schema of a store changes
SchemaChange(name) ==
    storeSchema' = [storeSchema EXCEPT ![name] = IF @ = LiveSchema(name)
                                                 THEN ChangedSchema(name)
                                                 ELSE LiveSchema(name)]

LiveAnswers(name) ==
    {[err |-> "store unreachable", schema |-> ""],
     [err |-> Nil, schema |-> ""],
     [err |-> Nil, schema |-> LiveSchema(name)]}

\* db/postgres_schema.go
GetPostgresSchema(cache, pools, dbName, live) ==
    IF GetCachedSchema(cache, dbName).ok
    THEN [schema |-> GetCachedSchema(cache, dbName).schema, err |-> Nil, cache |-> cache]
    ELSE IF dbName \notin pools
    THEN [schema |-> "", err |-> "postgres pool not found", cache |-> cache]
    ELSE IF live.err # Nil
    THEN [schema |-> "", err |-> live.err, cache |-> cache]
    ELSE [schema |-> live.schema, err |-> Nil,
          cache |-> CacheSchema(cache, dbName, live.schema)]

\* db/mongo_schema.go
GetMongoSchema(memo, clients, dbs, dbName, live) ==
    IF dbName \in DOMAIN memo
    THEN [schema |-> memo[dbName], err |-> Nil, memo |-> memo]
    ELSE IF dbName \notin clients
    THEN [schema |-> "", err |-> "mongo client not found", memo |-> memo]
    ELSE IF dbName \notin DOMAIN dbs
    THEN [schema |-> "", err |-> "mongo DB config not found", memo |-> memo]
    ELSE IF live.err # Nil
    THEN [schema |-> "", err |-> live.err, memo |-> memo]
    ELSE [schema |-> live.schema, err |-> Nil,
          memo |-> MapPut(memo, dbName, live.schema)]

(***************************************************************************)
(* The registry at the level of goroutines.  config.RegisteredDBs is a     *)
(* plain Go map (config.go 18) and no lock is taken around it: RegisterDB  *)
(* assigns into it (config.go 21), introspection ranges over it (part_007  *)
(* 27-29), Ask looks a descriptor up in it (ask.go 213) and db.ConnectMongo*)
(* reads it (schema.go 179).  A map access takes time: a goroutine is      *)
(* "inside" the map from the start of an access to its end.  When a write  *)
(* overlaps another access the Go runtime may stop the program with a      *)
(* fatal error, or the accesses may go through.                            *)
(***************************************************************************)
NoRegGo ==
    [pc |-> "idle", op |-> "", cfg |-> NoDB, up |-> FALSE, inside |-> "",
     atEnter |-> {}, visited |-> {}, got |-> NoDB]

\* the call of a goroutine has returned; "got" is the descriptor a lookup found
RegDone(op, got) == [NoRegGo EXCEPT !.pc = "done", !.op = op, !.got = got]

IdleReg == reg = [g \in Goroutines |-> NoRegGo] /\ fatal = FALSE

\* two goroutines are inside the map at once and one of them writes
Racing(g, h) ==
    /\ g # h /\ reg[g].inside # "" /\ reg[h].inside # ""
    /\ "write" \in {reg[g].inside, reg[h].inside}

\* a goroutine calls ConnectPostgres or ConnectMongo (db.go 10-28),
\* IntrospectAllSchemas, or reaches the lookup of Ask
RegBegin(g, op, cfg, up) ==
    /\ ~fatal /\ reg[g].pc \in {"idle", "done"}
    /\ reg' = [reg EXCEPT ![g] = [NoRegGo EXCEPT !.pc = "call", !.op = op,
                                                !.cfg = cfg, !.up = up]]
    /\ UNCHANGED <<connVars, fatal>>

\* config.go 21: the assignment into the map starts; nothing is waited for
MapAssignEnter(g) ==
    /\ ~fatal /\ reg[g].pc = "call"
    /\ reg[g].op \in {"ConnectPostgres", "ConnectMongo"}
    /\ reg' = [reg EXCEPT ![g].pc = "assign", ![g].inside = "write"]
    /\ UNCHANGED <<connVars, fatal>>

\* config.go 21: the assignment lands
MapAssignLeave(g) ==
    /\ ~fatal /\ reg[g].pc = "assign"
    /\ RegisteredDBs' = RegisterDB(RegisteredDBs, reg[g].cfg)
    /\ reg' = [reg EXCEPT ![g].pc = "connect", ![g].inside = ""]
    /\ UNCHANGED <<pgPools, MongoClients, MongoDBs, fatal>>

\* db.ConnectPostgres (postgres.go 33-78) and db.ConnectMongo (schema.go
\* 144-183), each under its own mutex; ConnectMongo copies the descriptor
\* that the registry holds for the name at that moment
DbConnect(g) ==
    /\ ~fatal /\ reg[g].pc = "connect"
    /\ LET name == reg[g].cfg.Name
           connects == name # "" /\ name \notin MongoClients /\ reg[g].up
       IN  IF reg[g].op = "ConnectPostgres"
           THEN /\ pgPools' = IF name # "" /\ (name \in pgPools \/ reg[g].up)
                              THEN pgPools \cup {name} ELSE pgPools
                /\ UNCHANGED <<MongoClients, MongoDBs>>
           ELSE /\ MongoClients' = IF connects THEN MongoClients \cup {name}
                                   ELSE MongoClients
                /\ MongoDBs' = IF connects /\ name \in DOMAIN RegisteredDBs
                               THEN MapPut(MongoDBs, name, RegisteredDBs[name])
                               ELSE MongoDBs
                /\ UNCHANGED pgPools
    /\ reg' = [reg EXCEPT ![g] = RegDone(reg[g].op, NoDB)]
    /\ UNCHANGED <<RegisteredDBs, fatal>>

\* part_007 27-29: the range over the registry starts
RangeEnter(g) ==
    /\ ~fatal /\ reg[g].pc = "call" /\ reg[g].op = "IntrospectAllSchemas"
    /\ reg' = [reg EXCEPT ![g].pc = "range", ![g].inside = "read",
                          ![g].atEnter = DOMAIN RegisteredDBs]
    /\ UNCHANGED <<connVars, fatal>>

\* part_007 29-31: the next entry; an entry added while the range runs may
\* be produced or skipped
RangeNext(g) ==
    /\ ~fatal /\ reg[g].pc = "range"
    /\ \E name \in DOMAIN RegisteredDBs \ reg[g].visited :
          reg' = [reg EXCEPT ![g].visited = @ \cup {name}]
    /\ UNCHANGED <<connVars, fatal>>

\* part_007 61: the range is over once every entry that was there at its
\* start has been produced
RangeLeave(g) ==
    /\ ~fatal /\ reg[g].pc = "range" /\ reg[g].atEnter \subseteq reg[g].visited
    /\ reg' = [reg EXCEPT ![g] = RegDone(reg[g].op, NoDB)]
    /\ UNCHANGED <<connVars, fatal>>

\* ask.go 213: Ask reads the descriptor of the routed store
LookupEnter(g) ==
    /\ ~fatal /\ reg[g].pc = "call" /\ reg[g].op = "Lookup"
    /\ reg' = [reg EXCEPT ![g].pc = "lookup", ![g].inside = "read"]
    /\ UNCHANGED <<connVars, fatal>>

LookupLeave(g) ==
    /\ ~fatal /\ reg[g].pc = "lookup"
    /\ LET name == reg[g].cfg.Name
           got == IF name \in DOMAIN RegisteredDBs THEN RegisteredDBs[name] ELSE NoDB
       IN  reg' = [reg EXCEPT ![g] = RegDone(reg[g].op, got)]
    /\ UNCHANGED <<connVars, fatal>>

\* the Go runtime finds a map write overlapping another access of the same
\* map and stops the program ("fatal error: concurrent map writes")
ConcurrentMapFault ==
    /\ ~fatal /\ \E g, h \in Goroutines : Racing(g, h)
    /\ fatal' = TRUE
    /\ UNCHANGED <<connVars, reg>>


(***************************************************************************)
(* IntrospectAllSchemasWithContext (context.Background()): one goroutine   *)
(* per registered store, each holding the name and config it was started   *)
(* with; the caller receives from errChan, which a further goroutine       *)
(* closes once every store goroutine is done.                              *)
(***************************************************************************)
NoIntro ==
    [caller |-> "idle", pending |-> {}, errChan |-> <<>>, cap |-> 0, closed |-> FALSE,
     ctxDone |-> FALSE, result |-> "none", at |-> <<>>, failed |-> {}, late |-> {}]

\* part_007 24-61: errChan is made with room for one error per registered
\* store and one goroutine is started per store; "at" holds the schema texts
\* of the stores at that moment, "done" says whether ctx is cancelled already
IntrospectAllSchemasWithContext(done) ==
    /\ intro.caller = "idle" /\ intro.pending = {}
    /\ intro' = [NoIntro EXCEPT !.caller = "waiting",
                    !.pending = {RegisteredDBs[n] : n \in DOMAIN RegisteredDBs},
                    !.cap = Cardinality(DOMAIN RegisteredDBs),
                    !.ctxDone = done, !.at = storeSchema]
    /\ UNCHANGED <<schemaCache, mongoSchemaCache>>

\* part_007 17-20
IntrospectAllSchemas == IntrospectAllSchemasWithContext(FALSE)

\* the caller's context is cancelled while the call or its goroutines run
CtxCancel ==
    /\ intro.caller = "waiting" \/ intro.pending # {}
    /\ ~intro.ctxDone
    /\ intro' = [intro EXCEPT !.ctxDone = TRUE]
    /\ UNCHANGED <<schemaCache, mongoSchemaCache>>

\* errChan has no buffer: a send waits for the receiver
CanSend_Unbuffered(i) == i.caller = "waiting" /\ i.errChan = <<>>

\* a send on errChan goes through while the buffer has room
CanSend(i) == Len(i.errChan) < i.cap

\* part_007 31-60, the goroutine of one store: with ctx cancelled it sends
\* ctx.Err(); otherwise it fetches the schema and sends the failure or
\* caches the text.  "failed" and "late" note the stores that did not
\* succeed and the goroutines that ended after the caller had returned.
IntrospectStore(cfg, live) ==
    /\ cfg \in intro.pending
    /\ LET pg == GetPostgresSchema(schemaCache, pgPools, cfg.Name, live)
           mg == GetMongoSchema(mongoSchemaCache, MongoClients, MongoDBs, cfg.Name, live)
           got == CASE cfg.Type = Postgres -> [schema |-> pg.schema, err |-> pg.err]
                    [] cfg.Type = Mongo -> [schema |-> mg.schema, err |-> mg.err]
                    [] OTHER -> [schema |-> "", err |-> "unsupported DB type"]
           cache1 == IF cfg.Type = Postgres THEN pg.cache ELSE schemaCache
           ended == [intro EXCEPT !.pending = @ \ {cfg},
                                  !.late = IF intro.caller = "idle"
                                           THEN @ \cup {cfg.Name} ELSE @]
           Sent(err) == [ended EXCEPT !.errChan = Append(@, err),
                                      !.failed = @ \cup {cfg.Name}]
       IN  IF intro.ctxDone
           THEN /\ CanSend(intro)
                /\ intro' = Sent("context canceled")
                /\ UNCHANGED <<schemaCache, mongoSchemaCache>>
           ELSE /\ mongoSchemaCache' = IF cfg.Type = Mongo THEN mg.memo
                                       ELSE mongoSchemaCache
                /\ IF got.err # Nil
                   THEN /\ CanSend(intro)
                        /\ intro' = Sent("failed to introspect " \o cfg.Name)
                        /\ schemaCache' = cache1
                   ELSE /\ intro' = ended
                        /\ schemaCache' = CacheSchema(cache1, cfg.Name, got.schema)

\* the closer does not wait for the goroutines
IntrospectClose_NoWait ==
    /\ intro.caller = "waiting" \/ intro.result # "none"
    /\ ~intro.closed
    /\ intro' = [intro EXCEPT !.closed = TRUE]
    /\ UNCHANGED <<schemaCache, mongoSchemaCache>>

\* part_007 64-67: the closer goroutine
IntrospectClose ==
    /\ intro.caller = "waiting" \/ intro.result # "none"
    /\ intro.pending = {} /\ ~intro.closed
    /\ intro' = [intro EXCEPT !.closed = TRUE]
    /\ UNCHANGED <<schemaCache, mongoSchemaCache>>

\* part_007 70: the first error received, or nil from the closed channel
IntrospectReturn ==
    /\ intro.caller = "waiting"
    /\ \/ /\ intro.errChan # <<>>
          /\ intro' = [intro EXCEPT !.caller = "idle", !.result = Head(intro.errChan),
                                    !.errChan = Tail(@)]
       \/ /\ intro.errChan = <<>> /\ intro.closed
          /\ intro' = [intro EXCEPT !.caller = "idle", !.result = Nil]
    /\ UNCHANGED <<schemaCache, mongoSchemaCache>>

ClearSchemaCache ==
    /\ schemaCache' = ClearCache(schemaCache)
    /\ UNCHANGED <<intro, mongoSchemaCache>>

RECURSIVE SchemaBlocks_KeepEmpty(_, _)
SchemaBlocks_KeepEmpty(schemas, order) ==
    IF order = <<>> THEN ""
    ELSE "# Database: " \o Head(order) \o "\n" \o schemas[Head(order)] \o "\n\n"
            \o SchemaBlocks_KeepEmpty(schemas, Tail(order))

GetAllSchemas_KeepEmpty(cache, order) ==
    TrimSpace(SchemaBlocks_KeepEmpty(GetAllCachedSchemas(cache), order))

\* GetAllSchemas: "order" is the order in which the map iteration visits the
\* names of the snapshot
RECURSIVE SchemaBlocks(_, _)
SchemaBlocks(schemas, order) ==
    IF order = <<>> THEN ""
    ELSE (IF schemas[Head(order)] # ""
          THEN "# Database: " \o Head(order) \o "\n" \o schemas[Head(order)] \o "\n\n"
          ELSE "")
         \o SchemaBlocks(schemas, Tail(order))

GetAllSchemas(cache, order) == TrimSpace(SchemaBlocks(GetAllCachedSchemas(cache), order))

Orders(S) == {o \in [1..Cardinality(S) -> S] : \A i, j \in DOMAIN o : o[i] = o[j] => i = j}

(***************************************************************************)
(* ask.go: the text cleaners                                               *)
(***************************************************************************)
\* a TLA+ string cannot hold the backquote character: "~" stands for it in
\* every text of the model, and no text uses "~" for anything else
Backquote == "~"

Fence == Backquote \o Backquote \o Backquote

RECURSIVE DropFenceLines(_)
DropFenceLines(lines) ==
    IF lines = <<>> THEN <<>>
    ELSE LET line == TrimSpace(Head(lines))
         IN  IF HasPrefix(line, Fence) \/ HasSuffix(line, Fence)
             THEN DropFenceLines(Tail(lines))
             ELSE <<line>> \o DropFenceLines(Tail(lines))

cleanLLMQuery(raw) == TrimSpace(Join(DropFenceLines(Split(raw))))

RECURSIVE UntilCommentary(_)
UntilCommentary(lines) ==
    IF lines = <<>> THEN <<>>
    ELSE IF HasPrefix(ToLower(Head(lines)), "note")
            \/ HasPrefix(ToLower(Head(lines)), "however")
    THEN <<>>
    ELSE <<Head(lines)>> \o UntilCommentary(Tail(lines))

cleanMongoText_KeepFence(response) ==
    LET r5 == TrimSpace(response)
        idx == Index(r5, "{")
        r6 == IF idx > 1 THEN SubSeq(r5, idx, Len(r5)) ELSE r5
    IN  Join(UntilCommentary(Split(r6)))

cleanMongoText(response) ==
    LET r1 == TrimSpace(response)
        r2 == TrimPrefix(r1, Fence \o "json")
        r3 == TrimPrefix(r2, Fence)
        r4 == TrimSuffix(r3, Fence)
        r5 == TrimSpace(r4)
        idx == Index(r5, "{")
        r6 == IF idx > 1 THEN SubSeq(r5, idx, Len(r5)) ELSE r5
    IN  Join(UntilCommentary(Split(r6)))

\* a generation output with no fence tag
NoGen == [text |-> "", tag |-> ""]

\* the text a generation backend answers when it puts its output g.text in
\* a fenced block: a fence line with the tag, the output, a fence line
Wrap(g) == Fence \o g.tag \o "\n" \o g.text \o "\n" \o Fence

(***************************************************************************)
(* ask.go: FindMostRelevantMongoCollection.  "got" is what GetMongoSchema  *)
(* returned.                                                               *)
(***************************************************************************)
RECURSIVE CountHits(_, _)
CountHits(lineLower, words) ==
    IF words = <<>> THEN 0
    ELSE (IF Contains(lineLower, Head(words)) THEN 1 ELSE 0)
            + CountHits(lineLower, Tail(words))

\* strings.SplitN(line, "(", 2)[0]
BeforeParen(line) ==
    IF Index(line, "(") = 0 THEN line ELSE SubSeq(line, 1, Index(line, "(") - 1)

RECURSIVE BestLine(_, _, _, _)
BestLine(lines, words, bestMatch, highestScore) ==
    IF lines = <<>> THEN bestMatch
    ELSE LET line == Head(lines)
             score == CountHits(ToLower(line), words)
         IN  IF line # "" /\ score > highestScore
             THEN BestLine(Tail(lines), words, BeforeParen(line), score)
             ELSE BestLine(Tail(lines), words, bestMatch, highestScore)

FindMostRelevantMongoCollection(prompt, dbName, registry, got) ==
    IF dbName \notin DOMAIN registry \/ registry[dbName].Type # Mongo THEN ""
    ELSE IF got.err # Nil \/ got.schema = "" THEN ""
    ELSE BestLine(Split(got.schema), Fields(ToLower(prompt)), "", 0)

(***************************************************************************)
(* ask.go lines 136-152: json.Unmarshal into the typed envelope.  A struct *)
(* field takes the keys that match its name in any letter case, the later  *)
(* key winning; null leaves a field alone; a value of the wrong type is an *)
(* error.                                                                  *)
(***************************************************************************)
Fits(v, t) == v.t \in {"absent", "null", t}

TextOf(v, default) == IF v.t = "string" THEN v.s ELSE default

DecodeEnvelope(text) ==
    LET d == Decode(text)
    IN  IF d.kind \in {"invalid", "array"}
             \/ ~Fits(d.operation, "string") \/ ~Fits(d.Operation, "string")
             \/ ~Fits(d.collection, "string") \/ ~Fits(d.filter, "object")
             \/ ~Fits(d.document, "object") \/ ~Fits(d.update, "object")
             \/ ~Fits(d.pipeline, "array")
        THEN [err |-> "error parsing LLM Mongo response", Operation |-> "",
              Collection |-> ""]
        ELSE [err |-> Nil,
              Operation |-> TextOf(d.Operation, TextOf(d.operation, "")),
              Collection |-> TextOf(d.collection, "")]

(***************************************************************************)
(* The store adapters.  "out" is what the store answers: [err, rows, n].   *)
(* Each returns [records, err].                                            *)
(***************************************************************************)
NoRecords == <<>>

Failed(err) == [records |-> NoRecords, err |-> err]

QueryPostgres_PartialRows(pools, name, query, out) ==
    IF name = "" THEN Failed("connection name cannot be empty")
    ELSE IF query = "" THEN Failed("query cannot be empty")
    ELSE IF name \notin pools THEN Failed("postgres pool not found")
    ELSE [records |-> out.rows, err |-> out.err]

\* db/postgres.go
QueryPostgres(pools, name, query, out) ==
    IF name = "" THEN Failed("connection name cannot be empty")
    ELSE IF query = "" THEN Failed("query cannot be empty")
    ELSE IF name \notin pools THEN Failed("postgres pool not found")
    ELSE IF out.err # Nil THEN Failed(out.err)
    ELSE [records |-> out.rows, err |-> Nil]

\* db/postgres.go Execute returns (rowsAffected, err)
Execute(pools, name, command, out) ==
    IF name = "" THEN [n |-> 0, err |-> "connection name cannot be empty"]
    ELSE IF command = "" THEN [n |-> 0, err |-> "command cannot be empty"]
    ELSE IF name \notin pools THEN [n |-> 0, err |-> "postgres pool not found"]
    ELSE IF out.err # Nil THEN [n |-> 0, err |-> out.err]
    ELSE [n |-> out.n, err |-> Nil]

\* db/schema.go QueryMongo and AggregateMongo return the documents
MongoRead(clients, name, dbName, collection, out) ==
    IF name = "" \/ dbName = "" \/ collection = "" THEN Failed("invalid parameters")
    ELSE IF name \notin clients THEN Failed("mongo client not found")
    ELSE IF out.err # Nil THEN Failed(out.err)
    ELSE [records |-> out.rows, err |-> Nil]

\* db/schema.go InsertMongo, UpdateMongo and DeleteMongo return one status record
MongoWrite(clients, name, dbName, collection, out) ==
    IF name = "" \/ dbName = "" \/ collection = "" THEN Failed("invalid parameters")
    ELSE IF name \notin clients THEN Failed("mongo client not found")
    ELSE IF out.err # Nil THEN Failed(out.err)
    ELSE [records |-> <<"status=success">>, err |-> Nil]

StoreAnswers ==
    {[err |-> "store error", rows |-> <<"row1">>, n |-> 0],
     [err |-> Nil, rows |-> <<>>, n |-> 0],
     [err |-> Nil, rows |-> <<"row1", "row2">>, n |-> 2]}

QueryMongo(clients, name, dbName, collection, out) ==
    MongoRead(clients, name, dbName, collection, out)

InsertMongo(clients, name, dbName, collection, out) ==
    MongoWrite(clients, name, dbName, collection, out)

UpdateMongo(clients, name, dbName, collection, out) ==
    MongoWrite(clients, name, dbName, collection, out)

DeleteMongo(clients, name, dbName, collection, out) ==
    MongoWrite(clients, name, dbName, collection, out)

AggregateMongo(clients, name, dbName, collection, out) ==
    MongoRead(clients, name, dbName, collection, out)

(***************************************************************************)
(* engine.RoutePrompt(ctx, prompt): the router is specified by its         *)
(* contract only: it fails, or it returns the descriptor of a registered   *)
(* store.                                                                  *)
(***************************************************************************)
RoutePrompt(prompt, registry) ==
    IF prompt = "" THEN {[db |-> NoDB, err |-> "empty prompt"]}
    ELSE IF DOMAIN registry = {} THEN {[db |-> NoDB, err |-> "no stores registered"]}
    ELSE {[db |-> NoDB, err |-> "no match"]}
            \cup {[db |-> registry[n], err |-> Nil] : n \in DOMAIN registry}

(***************************************************************************)
(* The Router, step by step (spec 4.2): the Keyword Set, the score of a    *)
(* store, one evaluation task per registered store, the merge of the       *)
(* results in arrival order and the overall timeout.                       *)
(***************************************************************************)
Punctuation == {".", ",", "?", "!", ";", ":", "(", ")"}

RECURSIVE StripPunct(_)
StripPunct(w) ==
    IF w # "" /\ Ch(w, 1) \in Punctuation THEN StripPunct(Tail(w))
    ELSE IF w # "" /\ Ch(w, Len(w)) \in Punctuation
    THEN StripPunct(SubSeq(w, 1, Len(w) - 1))
    ELSE w

StopWords == {"a", "an", "the", "and", "or", "of", "in", "to", "all", "than"}

Tokens(prompt) ==
    LET fs == Fields(ToLower(prompt))
    IN  {StripPunct(fs[i]) : i \in DOMAIN fs} \ {""}

Keywords_KeepStopWords(prompt) == Tokens(prompt)

Keywords(prompt) == Tokens(prompt) \ StopWords

\* the places where kw occurs in text
Occurrences(text, kw) ==
    {i \in 1..(Len(text) - Len(kw) + 1) : SubSeq(text, i, i + Len(kw) - 1) = kw}

\* ... as a separate word: bounded by whitespace or the ends of the text
WordOccurrences(text, kw) ==
    {i \in Occurrences(text, kw) :
        /\ i = 1 \/ IsSpace(Ch(text, i - 1))
        /\ i + Len(kw) - 1 = Len(text) \/ IsSpace(Ch(text, i + Len(kw)))}

\* ... preceded by whitespace and immediately followed by "("
TableOccurrences(text, kw) ==
    {i \in Occurrences(text, kw) :
        /\ i > 1 /\ IsSpace(Ch(text, i - 1))
        /\ i + Len(kw) <= Len(text) /\ Ch(text, i + Len(kw)) = "("}

KeywordScore(text, kw) ==
    (IF WordOccurrences(text, kw) # {} THEN 3
     ELSE IF Occurrences(text, kw) # {} THEN 1 ELSE 0)
    + (IF TableOccurrences(text, kw) # {} THEN 2 ELSE 0)
    + (IF Cardinality(WordOccurrences(text, kw)) >= 2 THEN 1 ELSE 0)

RECURSIVE SumScores(_, _)
SumScores(text, kws) ==
    IF kws = {} THEN 0
    ELSE LET kw == CHOOSE k \in kws : TRUE
         IN  KeywordScore(text, kw) + SumScores(text, kws \ {kw})

\* a store whose schema fetch fails or is empty scores 0
StoreScore(got, kws) ==
    IF got.err # Nil \/ got.schema = "" THEN 0
    ELSE SumScores(ToLower(got.schema), kws)

NoBest == [name |-> "", score |-> 0]

NoRoute ==
    [pc |-> "idle", prompt |-> "", keywords |-> {}, stores |-> EmptyMap, pending |-> {},
     channel |-> <<>>, merged |-> <<>>, late |-> {}, best |-> NoBest, timedOut |-> FALSE,
     db |-> NoDB, err |-> Nil]

IdleRoute == route = NoRoute

RouteFail(r, err) == [r EXCEPT !.pc = "done", !.db = NoDB, !.err = err]

\* the decision: the best store of the results merged, or NoMatch
Decide(r) ==
    IF r.best.score <= 0 THEN RouteFail(r, "NoMatch")
    ELSE [r EXCEPT !.pc = "done", !.db = r.stores[r.best.name], !.err = Nil]

\* the checks of the contract, then one evaluation task per registered store
RouteBegin(prompt) ==
    /\ route.pc = "idle"
    /\ LET r == [route EXCEPT !.prompt = prompt, !.keywords = Keywords(prompt),
                              !.stores = RegisteredDBs]
       IN  route' = IF prompt = "" \/ r.keywords = {} THEN RouteFail(r, "EmptyPrompt")
                    ELSE IF DOMAIN RegisteredDBs = {}
                    THEN RouteFail(r, "NoStoresRegistered")
                    ELSE [r EXCEPT !.pc = "wait", !.pending = DOMAIN RegisteredDBs]

\* the evaluation task of a store ends: it has fetched the schema text and
\* scored it, and sends its result; "late" are the tasks that end after
\* Route has returned
RouteEvaluate(name, got) ==
    /\ name \in route.pending
    /\ route' = [route EXCEPT
                    !.pending = @ \ {name},
                    !.late = IF route.pc = "done" THEN @ \cup {name} ELSE @,
                    !.channel = Append(@, [name |-> name, got |-> got,
                                           score |-> StoreScore(got, route.keywords)])]

\* a failed schema fetch ends the call
Merge_FetchFatal(r) ==
    LET res == Head(r.channel)
        q == [r EXCEPT !.channel = Tail(@), !.merged = Append(@, res)]
    IN  IF res.got.err # Nil THEN RouteFail(q, "schema fetch failed")
        ELSE IF res.score > r.best.score
        THEN [q EXCEPT !.best = [name |-> res.name, score |-> res.score]]
        ELSE q

\* the first result to arrive stays the best
Merge_FirstWins(r) ==
    LET res == Head(r.channel)
        q == [r EXCEPT !.channel = Tail(@), !.merged = Append(@, res)]
    IN  IF r.merged = <<>>
        THEN [q EXCEPT !.best = [name |-> res.name, score |-> res.score]]
        ELSE q

\* a result that ties with the best so far replaces it
Merge_LastWins(r) ==
    LET res == Head(r.channel)
        q == [r EXCEPT !.channel = Tail(@), !.merged = Append(@, res)]
    IN  IF res.score >= r.best.score /\ res.score > 0
        THEN [q EXCEPT !.best = [name |-> res.name, score |-> res.score]]
        ELSE q

\* the next result in arrival order: a strictly higher score replaces the
\* best so far
Merge(r) ==
    LET res == Head(r.channel)
        q == [r EXCEPT !.channel = Tail(@), !.merged = Append(@, res)]
    IN  IF res.score > r.best.score
        THEN [q EXCEPT !.best = [name |-> res.name, score |-> res.score]]
        ELSE q

\* a result is merged also after the timeout has fired
RouteMerge_Late ==
    /\ route.pc = "wait" \/ route.timedOut
    /\ route.channel # <<>>
    /\ route' = IF route.timedOut THEN Decide(Merge(route)) ELSE Merge(route)

\* Route takes the next result while it waits
RouteMerge ==
    /\ route.pc = "wait"
    /\ route.channel # <<>>
    /\ route' = Merge(route)

\* every task has been merged
RouteJoin ==
    /\ route.pc = "wait"
    /\ route.pending = {} /\ route.channel = <<>>
    /\ route' = Decide(route)

\* the overall timeout fires while results are outstanding
RouteTimeout ==
    /\ route.pc = "wait"
    /\ route.pending # {} \/ route.channel # <<>>
    /\ route' = Decide([route EXCEPT !.timedOut = TRUE])

(***************************************************************************)
(* The generation backend (llm.LLM.GenerateQuery) is outside the program:  *)
(* it fails or answers with a text.                                        *)
(***************************************************************************)
Doc(operation, collection, filter, document, update, pipeline, Operation) ==
    [kind |-> "object", operation |-> operation, collection |-> collection,
     filter |-> filter, document |-> document, update |-> update,
     pipeline |-> pipeline, Operation |-> Operation]

SQLAnswers ==
    {Fence \o "sql\nSELECT * FROM students\n" \o Fence,
     "update students set age = 21",
     "DROP TABLE students",
     "show tables"}

MongoAnswers ==
    {Encode(Doc(JStr("find"), JStr("orders"), JObj, Absent, Absent, Absent, Absent)),
     Fence \o "json\n"
        \o Encode(Doc(JStr("insert"), JStr("courses"), Absent, JObj, Absent, Absent, Absent))
        \o "\n" \o Fence,
     Encode(Doc(JStr("update"), JStr("courses"), JObj, Absent, JObj, Absent, Absent))
        \o "\nNote: this updates every matching document",
     "Here it is: "
        \o Encode(Doc(JStr("aggregate"), JStr("orders"), Absent, Absent, Absent, JArr, Absent)),
     Encode(Doc(JStr("delete"), JStr("courses"), JObj, Absent, Absent, Absent, Absent)),
     Encode(Doc(JStr("find"), JStr(""), JObj, Absent, Absent, Absent, Absent)),
     Encode(Doc(JStr("find"), JStr("orders"), JNum, Absent, Absent, Absent, Absent)),
     Encode(Doc(JStr("find"), JStr("orders"), JObj, Absent, Absent, Absent, JStr("delete"))),
     Encode(Doc(JStr("update"), JStr("orders"), JObj, Absent, Absent, Absent, Absent)),
     "I cannot answer that"}

GenerateQuery(req) ==
    {[Query |-> "", err |-> "backend unavailable"]}
        \cup {[Query |-> t, err |-> Nil] :
                t \in IF req.QueryType = "sql" THEN SQLAnswers ELSE MongoAnswers}

(***************************************************************************)
(* ask.go: Ask, one action per stage of the call.  ask.trace lists the     *)
(* stages the call has run, ask.llmCalls counts the calls of the backend   *)
(* and ask.adapterCalls lists the calls of the store adapters.             *)
(***************************************************************************)
Prompts == {"", "find all students older than 20", "add a new course titled Go Basics"}

NoReq == [Prompt |-> "", Schema |-> "", DBType |-> "", QueryType |-> "", Collection |-> ""]

\* a templates.TemplateManager: the call that made it and whether its
\* templates were loaded
NoTM == [owner |-> "none", loaded |-> FALSE]

\* llm.NewBaseLLM: the client starts with an empty template manager
NewBaseLLM == [templateManager |-> [owner |-> "client", loaded |-> FALSE]]

\* BaseLLM.SetTemplateManager
SetTemplateManager(client, tm) == [client EXCEPT !.templateManager = tm]

\* no store has answered
NoAnswer == [err |-> Nil, rows |-> <<>>, n |-> 0]

NoAsk ==
    [pc |-> "idle", userPrompt |-> "", schemas |-> EmptyMap, schema |-> "",
     tm |-> NoTM, prepared |-> NoTM,
     targetDB |-> NoDB, req |-> NoReq, collection |-> "", raw |-> "", query |-> "",
     Operation |-> "", Collection |-> "", validated |-> "none",
     records |-> NoRecords, err |-> Nil, trace |-> <<>>, llmCalls |-> 0,
     adapterCalls |-> <<>>, answer |-> NoAnswer, failures |-> {}]

\* a step of the call has failed
Failure(a, step) == [a EXCEPT !.failures = @ \cup {step}]

Return(a, records, err) == [a EXCEPT !.pc = "done", !.records = records, !.err = err]

Stage(a, name) == [a EXCEPT !.trace = Append(@, name)]

\* lines 20-38: the input checks, then the call makes a template manager
\* and sets it on the client; a template directory that fails to load
\* ("loaded" is false) is logged and the call goes on
AskInput(prompt, order, loaded) ==
    /\ ask.pc = "idle" /\ intro.caller = "idle"
    /\ LET a == Stage([ask EXCEPT !.userPrompt = prompt], "input")
           b == [a EXCEPT !.schemas = GetAllCachedSchemas(schemaCache)]
           schema == GetAllSchemas(schemaCache, order)
           tm == [owner |-> "ask", loaded |-> loaded]
           c == IF loaded THEN b ELSE Failure(b, "templates")
       IN  /\ ask' = IF prompt = ""
                     THEN Return(Failure(a, "prompt"), NoRecords, "prompt is empty")
                     ELSE IF schema = ""
                     THEN Return(Failure(b, "schema"), NoRecords, "schema is empty")
                     ELSE [c EXCEPT !.pc = "route", !.schema = schema, !.tm = tm]
           /\ llmClient' = IF prompt = "" \/ schema = "" THEN llmClient
                           ELSE SetTemplateManager(llmClient, tm)
    /\ UNCHANGED <<mongoSchemaCache>>

\* lines 20-38 in another Ask call, of another goroutine, that was given the
\* same client
OtherAskInput(prompt, order, loaded) ==
    /\ prompt # "" /\ prompt # ask.userPrompt
    /\ GetAllSchemas(schemaCache, order) # ""
    /\ llmClient' = SetTemplateManager(llmClient, [owner |-> "other", loaded |-> loaded])

\* the caller of the Ask in progress cancels it
Cancel ==
    /\ ask.pc \notin {"idle", "done"} /\ ~cancelled
    /\ cancelled' = TRUE

\* lines 40-56: route, check the descriptor, prepare the request
AskRoute(routed) ==
    /\ ask.pc = "route"
    /\ LET a == Stage(ask, "route")
       IN  ask' = IF routed.err # Nil
                  THEN Return(Failure(a, "route"), NoRecords,
                              "failed to determine target database")
                  ELSE IF routed.db.Name = "" \/ routed.db.Type = ""
                  THEN Return(Failure(a, "route"), NoRecords,
                              "invalid database configuration")
                  ELSE [a EXCEPT !.pc = "build", !.targetDB = routed.db,
                           !.req = [NoReq EXCEPT !.Prompt = a.userPrompt,
                                       !.Schema = a.schema,
                                       !.DBType = ToLower(routed.db.Type)]]
    /\ UNCHANGED <<mongoSchemaCache>>

\* lines 58-60 and 112-120: the query type and, for a document store, the
\* collection guessed from the prompt
AskBuild(live) ==
    /\ ask.pc = "build"
    /\ LET a == Stage(ask, "build")
           got == GetMongoSchema(mongoSchemaCache, MongoClients, MongoDBs,
                                 a.targetDB.Name, live)
           fetches == a.targetDB.Type = Mongo
                        /\ a.targetDB.Name \in DOMAIN RegisteredDBs
                        /\ RegisteredDBs[a.targetDB.Name].Type = Mongo
           collection == FindMostRelevantMongoCollection(
                            a.userPrompt, a.targetDB.Name, RegisteredDBs, got)
       IN  /\ mongoSchemaCache' = IF fetches THEN got.memo ELSE mongoSchemaCache
           /\ ask' = CASE a.targetDB.Type = Postgres ->
                            [a EXCEPT !.pc = "generate", !.req.QueryType = "sql"]
                       [] a.targetDB.Type = Mongo ->
                            IF collection = ""
                            THEN Return(Failure(a, "collection"), NoRecords,
                                        "could not infer MongoDB collection name from prompt")
                            ELSE [a EXCEPT !.pc = "generate", !.req.QueryType = "mongo",
                                     !.req.Collection = collection,
                                     !.collection = collection]
                       [] OTHER -> Return(Failure(a, "db type"), NoRecords,
                                          "unsupported DB type")

\* the call of the backend, repeated when it fails
AskGenerate_Retry(resp) ==
    /\ ask.pc = "generate"
    /\ LET a == Stage([ask EXCEPT !.llmCalls = @ + 1], "generate")
       IN  ask' = IF resp.err # Nil
                  THEN (IF a.llmCalls < 2 THEN Failure(a, "generate")
                        ELSE Return(Failure(a, "generate"), NoRecords,
                                    "llm generation failed"))
                  ELSE [a EXCEPT !.pc = "clean", !.raw = resp.Query]
    /\ UNCHANGED <<mongoSchemaCache>>

\* lines 62-65 and 123-126: GenerateQuery prepares the prompt with the
\* template manager the client holds (base_llm.go 37-75) and fails when the
\* template is not there
AskGenerate(resp) ==
    /\ ask.pc = "generate"
    /\ LET a == Stage([ask EXCEPT !.llmCalls = @ + 1,
                                  !.prepared = llmClient.templateManager], "generate")
       IN  ask' = IF ~a.prepared.loaded \/ resp.err # Nil
                  THEN Return(Failure(a, "generate"), NoRecords, "llm generation failed")
                  ELSE [a EXCEPT !.pc = "clean", !.raw = resp.Query]
    /\ UNCHANGED <<mongoSchemaCache>>

\* lines 67 and 129: the cleaner of the store kind
Clean(dbType, raw) == IF dbType = Postgres THEN cleanLLMQuery(raw) ELSE cleanMongoText(raw)

AskClean ==
    /\ ask.pc = "clean"
    /\ ask' = [Stage(ask, "clean") EXCEPT !.pc = "validate",
                  !.query = Clean(ask.targetDB.Type, ask.raw)]
    /\ UNCHANGED <<mongoSchemaCache>>

validationError_SQLOnly(a) ==
    IF a.targetDB.Type = Postgres THEN ValidateSQL(a.query) ELSE Nil

\* lines 70 and 130: the validator of the store kind
validationError(a) ==
    IF a.targetDB.Type = Postgres THEN ValidateSQL(a.query) ELSE ValidateMongo(a.query)

\* lines 69-72 and 130-132
AskValidate ==
    /\ ask.pc = "validate"
    /\ LET a == Stage(ask, "validate")
           err == validationError(a)
       IN  ask' = IF err # Nil
                  THEN Return(Failure(a, "validate"), NoRecords,
                              "query validation failed: " \o err)
                  ELSE [a EXCEPT !.validated = a.query,
                           !.pc = IF a.targetDB.Type = Postgres
                                  THEN "execute" ELSE "parse"]
    /\ UNCHANGED <<mongoSchemaCache>>

\* lines 136-152
AskParse ==
    /\ ask.pc = "parse"
    /\ LET a == Stage(ask, "parse")
           mongoQuery == DecodeEnvelope(a.query)
       IN  ask' = IF mongoQuery.err # Nil
                  THEN Return(Failure(a, "parse"), NoRecords, mongoQuery.err)
                  ELSE [a EXCEPT !.pc = "execute",
                           !.Operation = mongoQuery.Operation,
                           !.Collection = IF mongoQuery.Collection = ""
                                          THEN a.collection
                                          ELSE mongoQuery.Collection]
    /\ UNCHANGED <<mongoSchemaCache>>

Called(a, adapter) ==
    [a EXCEPT !.adapterCalls =
        Append(@, [adapter |-> adapter, name |-> a.targetDB.Name,
                   collection |-> a.Collection, text |-> a.query])]

\* the query is sent to the read adapter only when it begins with select in
\* small letters
ExecutePostgres_CaseSensitive(a, out, vizLoaded) ==
    LET read == QueryPostgres(pgPools, a.targetDB.Name, a.query, out)
        write == Execute(pgPools, a.targetDB.Name, a.query, out)
        b == Called(a, "Execute")
    IN  IF HasPrefix(TrimSpace(a.query), "select")
        THEN Return(Called(a, "QueryPostgres"), read.records, read.err)
        ELSE IF write.err # Nil
        THEN Return(Failure(b, "execute"), NoRecords,
                    "query execution failed: " \o write.err)
        ELSE Return(b, <<"rows_affected=" \o ToString(write.n)>>, Nil)

\* the outcome of an adapter is the outcome of the call
Outcome(a, r) == Return(IF r.err # Nil THEN Failure(a, "execute") ELSE a, r.records, r.err)

\* lines 74-110: the relational store; after a write the visualization step
\* loads the templates again ("vizLoaded") and a failure there is logged
ExecutePostgres(a, out, vizLoaded) ==
    LET isSelect == HasPrefix(ToLower(TrimSpace(a.query)), "select")
        read == QueryPostgres(pgPools, a.targetDB.Name, a.query, out)
        write == Execute(pgPools, a.targetDB.Name, a.query, out)
        b == Called(a, "Execute")
    IN  IF isSelect
        THEN Outcome(Called(a, "QueryPostgres"), read)
        ELSE IF write.err # Nil
        THEN Return(Failure(b, "execute"), NoRecords,
                    "query execution failed: " \o write.err)
        ELSE Return(IF vizLoaded THEN b ELSE Failure(b, "visualize"),
                    <<"rows_affected=" \o ToString(write.n)>>, Nil)

\* lines 154-167: the document store
ExecuteMongo(a, out) ==
    LET name == a.targetDB.Name
        dbName == a.targetDB.DBName
        Run(adapter, r) == Outcome(Called(a, adapter), r)
    IN  CASE a.Operation = "find" ->
               Run("QueryMongo", QueryMongo(MongoClients, name, dbName, a.Collection, out))
          [] a.Operation = "insert" ->
               Run("InsertMongo", InsertMongo(MongoClients, name, dbName, a.Collection, out))
          [] a.Operation = "update" ->
               Run("UpdateMongo", UpdateMongo(MongoClients, name, dbName, a.Collection, out))
          [] a.Operation = "delete" ->
               Run("DeleteMongo", DeleteMongo(MongoClients, name, dbName, a.Collection, out))
          [] a.Operation = "aggregate" ->
               Run("AggregateMongo",
                   AggregateMongo(MongoClients, name, dbName, a.Collection, out))
          [] OTHER -> Return(Failure(a, "execute"), NoRecords,
                             "unsupported Mongo operation")

AskExecute(out, vizLoaded) ==
    /\ ask.pc = "execute"
    /\ LET a == Stage([ask EXCEPT !.answer = out], "execute")
       IN  ask' = IF ask.targetDB.Type = Postgres
                  THEN ExecutePostgres(a, out, vizLoaded)
                  ELSE ExecuteMongo(a, out)
    /\ UNCHANGED <<mongoSchemaCache>>

\* the caller has the result and may call again
AskReturn ==
    /\ ask.pc = "done"
    /\ ask' = NoAsk
    /\ cancelled' = FALSE
    /\ UNCHANGED <<mongoSchemaCache>>

(***************************************************************************)
(* The program: one caller that connects stores, introspects, clears the   *)
(* cache and asks, one call at a time, while the goroutines of an          *)
(* introspection run on their own.                                         *)
(***************************************************************************)
PostgresNames == {"students_db"}

MongoNames == {"lms_db"}

DBNames == {"lms"}

CallerIdle == ask.pc = "idle" /\ intro.caller = "idle"

IdleProgram ==
    /\ RegisteredDBs = EmptyMap /\ pgPools = {} /\ MongoClients = {}
    /\ MongoDBs = EmptyMap /\ mongoSchemaCache = EmptyMap
    /\ intro = NoIntro /\ ask = NoAsk /\ IdleRoute
    /\ cancelled = FALSE /\ llmClient = NewBaseLLM
    /\ IdleReg /\ storeSchema = [n \in StoreNames |-> LiveSchema(n)]
    /\ gen = NoGen

(***************************************************************************)
(* The specifications of the two validators: the input is drawn in the     *)
(* initial state and the validator is applied to it.                       *)
(***************************************************************************)
InitSQL ==
    /\ sqlQuery \in SQLTexts /\ sqlErr = "pending"
    /\ IdleMongo /\ IdleCache /\ IdleLock /\ IdleProgram

NextSQL == CallValidateSQL

SpecSQL == InitSQL /\ [][NextSQL]_vars

InitMongo ==
    /\ mongoText \in MongoTexts /\ mongoErr = "pending"
    /\ IdleSQL /\ IdleCache /\ IdleLock /\ IdleProgram

NextMongo == CallValidateMongo

SpecMongo == InitMongo /\ [][NextMongo]_vars

(***************************************************************************)
(* The specification of the two cleaners: a generation output and its      *)
(* fence tag are drawn in the initial state, the call is at its cleaning   *)
(* step with the wrapped output as the backend's answer.                   *)
(***************************************************************************)
GenLines ==
    {"SELECT a", "  FROM b", "{\"operation\":\"find\"}", "Note: sorted", " ",
     Fence, "x " \o Fence}

GenTexts ==
    {""} \cup GenLines \cup {a \o "\n" \o b : a, b \in GenLines}
         \cup {"here: {}", "{}\n", "SELECT a\nFROM b\nLIMIT 1", "{\n  \"operation\": \"find\"\n}"}

FenceTags == {"", "sql", "json"}

InitClean ==
    /\ gen \in [text : GenTexts, tag : FenceTags]
    /\ \E t \in {Postgres, Mongo} :
          ask = [NoAsk EXCEPT !.pc = "clean", !.raw = Wrap(gen),
                    !.targetDB = [Name |-> "db", Type |-> t, DBName |-> ""]]
    /\ RegisteredDBs = EmptyMap /\ pgPools = {} /\ MongoClients = {}
    /\ MongoDBs = EmptyMap /\ mongoSchemaCache = EmptyMap
    /\ intro = NoIntro /\ IdleRoute
    /\ cancelled = FALSE /\ llmClient = NewBaseLLM
    /\ IdleReg /\ storeSchema = [n \in StoreNames |-> LiveSchema(n)]
    /\ IdleSQL /\ IdleMongo /\ IdleCache /\ IdleLock

NextClean ==
    AskClean
    /\ UNCHANGED <<sqlVars, gen, mongoVars, cacheVars, lockVars, connVars, intro, route,
                   callVars, regVars, storeSchema>>

SpecClean == InitClean /\ [][NextClean]_vars

(***************************************************************************)
(* The schema cache under any sequence of calls                            *)
(***************************************************************************)
InitCache == IdleCache /\ IdleLock /\ IdleSQL /\ IdleMongo /\ IdleProgram

NextCache ==
    \/ \E name \in StoreNames \cup {""}, text \in SchemaTexts :
          Put(name, text) /\ UNCHANGED <<sqlVars, gen, mongoVars, lockVars, progVars>>
    \/ \E name \in StoreNames \cup {""} :
          Get(name) /\ UNCHANGED <<sqlVars, gen, mongoVars, lockVars, progVars>>
    \/ GetAll /\ UNCHANGED <<sqlVars, gen, mongoVars, lockVars, progVars>>
    \/ Size /\ UNCHANGED <<sqlVars, gen, mongoVars, lockVars, progVars>>
    \/ Clear /\ UNCHANGED <<sqlVars, gen, mongoVars, lockVars, progVars>>
    \/ \E name \in StoreNames, text \in SchemaTexts :
          SnapWrite(name, text) /\ UNCHANGED <<sqlVars, gen, mongoVars, lockVars, progVars>>
    \/ \E name \in StoreNames :
          SnapDelete(name) /\ UNCHANGED <<sqlVars, gen, mongoVars, lockVars, progVars>>

SpecCache == InitCache /\ [][NextCache]_vars

(***************************************************************************)
(* The schema cache called by goroutines                                   *)
(***************************************************************************)
InitLock == IdleCache /\ IdleLock /\ IdleSQL /\ IdleMongo /\ IdleProgram

lockOthers == <<sqlVars, gen, mongoVars, progVars, cacheCall, snap>>

NextLock ==
    \/ \E g \in Goroutines, name \in StoreNames \cup {""}, text \in LockTexts :
          CacheBegin(g, "Put", name, text) /\ UNCHANGED lockOthers
    \/ \E g \in Goroutines, name \in StoreNames \cup {""} :
          CacheBegin(g, "Get", name, "") /\ UNCHANGED lockOthers
    \/ \E g \in Goroutines, op \in {"GetAll", "Size", "Clear"} :
          CacheBegin(g, op, "", "") /\ UNCHANGED lockOthers
    \/ \E g \in Goroutines : CacheLock(g) /\ UNCHANGED lockOthers
    \/ \E g \in Goroutines : CacheRLock(g) /\ UNCHANGED lockOthers
    \/ \E g \in Goroutines : PutLoad(g) /\ UNCHANGED lockOthers
    \/ \E g \in Goroutines : PutStore(g) /\ UNCHANGED lockOthers
    \/ \E g \in Goroutines : ClearRebind(g) /\ UNCHANGED lockOthers
    \/ \E g \in Goroutines : GetRead(g) /\ UNCHANGED lockOthers
    \/ \E g \in Goroutines : SizeRead(g) /\ UNCHANGED lockOthers
    \/ \E g \in Goroutines : GetAllMake(g) /\ UNCHANGED lockOthers
    \/ \E g \in Goroutines : GetAllCopy(g) /\ UNCHANGED lockOthers
    \/ \E g \in Goroutines : CacheUnlock(g) /\ UNCHANGED lockOthers
    \/ \E g \in Goroutines : CacheRUnlock(g) /\ UNCHANGED lockOthers

SpecLock == InitLock /\ [][NextLock]_vars

(***************************************************************************)
(* The Router on a registry that the connection setup has filled: the      *)
(* stores are registered and connected, nothing is cached yet.             *)
(***************************************************************************)
StudentsDB == [Name |-> "students_db", Type |-> Postgres, DBName |-> ""]

LmsDB == [Name |-> "lms_db", Type |-> Mongo, DBName |-> "lms"]

Registry(cfgs) == [n \in {c.Name : c \in cfgs} |-> CHOOSE c \in cfgs : c.Name = n]

RouteRegistries == {Registry(cfgs) : cfgs \in SUBSET {StudentsDB, LmsDB}}

RoutePrompts ==
    {"", "The a?", "find all students older than 20",
     "add a new course titled Go Basics", "list the courses of students", "hello"}

RouteSchemas(name) ==
    IF name = "students_db"
    THEN {"students(id, name, age)", "students (\n    id int,\n    name text\n)"}
    ELSE {"courses(title, duration)\n", "list of courses (title, duration)"}

\* the schema accessor of a store answers with an error, with an empty text
\* or with a schema text
FetchAnswers(name) ==
    {[err |-> "schema fetch failed", schema |-> ""], [err |-> Nil, schema |-> ""]}
        \cup {[err |-> Nil, schema |-> t] : t \in RouteSchemas(name)}

InitRoute ==
    /\ IdleCache /\ IdleLock /\ IdleSQL /\ IdleMongo
    /\ RegisteredDBs \in RouteRegistries
    /\ pgPools = {n \in DOMAIN RegisteredDBs : RegisteredDBs[n].Type = Postgres}
    /\ MongoClients = {n \in DOMAIN RegisteredDBs : RegisteredDBs[n].Type = Mongo}
    /\ MongoDBs = [n \in MongoClients |-> RegisteredDBs[n]]
    /\ mongoSchemaCache = EmptyMap /\ intro = NoIntro /\ ask = NoAsk /\ IdleRoute
    /\ cancelled = FALSE /\ llmClient = NewBaseLLM
    /\ IdleReg /\ storeSchema = [n \in StoreNames |-> LiveSchema(n)]
    /\ gen = NoGen

routeOthers ==
    <<sqlVars, gen, mongoVars, cacheVars, lockVars, connVars, mongoSchemaCache, intro, ask,
      callVars, regVars, storeSchema>>

NextRoute ==
    \/ \E prompt \in RoutePrompts : RouteBegin(prompt) /\ UNCHANGED routeOthers
    \/ \E name \in route.pending : \E got \in FetchAnswers(name) :
          RouteEvaluate(name, got) /\ UNCHANGED routeOthers
    \/ RouteMerge /\ UNCHANGED routeOthers
    \/ RouteJoin /\ UNCHANGED routeOthers
    \/ RouteTimeout /\ UNCHANGED routeOthers

SpecRoute == InitRoute /\ [][NextRoute]_vars

Init == IdleProgram /\ IdleCache /\ IdleLock /\ IdleSQL /\ IdleMongo

others ==
    <<sqlVars, gen, mongoVars, lockVars, cacheCall, refMap, snap, route, regVars, storeSchema>>

Next ==
    \/ \E name \in PostgresNames, up \in BOOLEAN :
          /\ CallerIdle
          /\ ConnectPostgres(name, up)
          /\ UNCHANGED <<schemaCache, mongoSchemaCache, intro, ask, others, callVars>>
    \/ \E name \in MongoNames, dbName \in DBNames, up \in BOOLEAN :
          /\ CallerIdle
          /\ ConnectMongo(name, dbName, up)
          /\ UNCHANGED <<schemaCache, mongoSchemaCache, intro, ask, others, callVars>>
    \/ \E name \in PostgresNames :
          /\ CallerIdle
          /\ ClosePostgres(name)
          /\ UNCHANGED <<schemaCache, mongoSchemaCache, intro, ask, others, callVars>>
    \/ /\ CallerIdle
       /\ CloseAllPostgres
       /\ UNCHANGED <<schemaCache, mongoSchemaCache, intro, ask, others, callVars>>
    \/ \E name \in MongoNames, ok \in BOOLEAN :
          /\ CallerIdle
          /\ CloseMongo(name, ok)
          /\ UNCHANGED <<schemaCache, mongoSchemaCache, intro, ask, others, callVars>>
    \/ /\ CallerIdle
       /\ CloseAllMongo
       /\ UNCHANGED <<schemaCache, mongoSchemaCache, intro, ask, others, callVars>>
    \/ /\ CallerIdle
       /\ IntrospectAllSchemas
       /\ UNCHANGED <<connVars, ask, others, callVars>>
    \/ \E cfg \in intro.pending : \E live \in LiveAnswers(cfg.Name) :
          /\ IntrospectStore(cfg, live)
          /\ UNCHANGED <<connVars, ask, others, callVars>>
    \/ IntrospectClose /\ UNCHANGED <<connVars, ask, others, callVars>>
    \/ IntrospectReturn /\ UNCHANGED <<connVars, ask, others, callVars>>
    \/ /\ CallerIdle
       /\ ClearSchemaCache
       /\ UNCHANGED <<connVars, ask, others, callVars>>
    \/ \E prompt \in Prompts, order \in Orders(DOMAIN schemaCache), loaded \in BOOLEAN :
          /\ AskInput(prompt, order, loaded)
          /\ UNCHANGED <<connVars, schemaCache, intro, others, cancelled>>
    \/ \E prompt \in Prompts, order \in Orders(DOMAIN schemaCache), loaded \in BOOLEAN :
          /\ OtherAskInput(prompt, order, loaded)
          /\ UNCHANGED <<connVars, schemaCache, mongoSchemaCache, intro, ask, others,
                         cancelled>>
    \/ /\ Cancel
       /\ UNCHANGED <<connVars, schemaCache, mongoSchemaCache, intro, ask, others,
                      llmClient>>
    \/ \E routed \in RoutePrompt(ask.userPrompt, RegisteredDBs) :
          /\ AskRoute(routed)
          /\ UNCHANGED <<connVars, schemaCache, intro, others, callVars>>
    \/ \E live \in LiveAnswers(ask.targetDB.Name) :
          /\ AskBuild(live)
          /\ UNCHANGED <<connVars, schemaCache, intro, others, callVars>>
    \/ \E resp \in GenerateQuery(ask.req) :
          /\ AskGenerate(resp)
          /\ UNCHANGED <<connVars, schemaCache, intro, others, callVars>>
    \/ AskClean /\ UNCHANGED <<connVars, schemaCache, intro, others, callVars>>
    \/ AskValidate /\ UNCHANGED <<connVars, schemaCache, intro, others, callVars>>
    \/ AskParse /\ UNCHANGED <<connVars, schemaCache, intro, others, callVars>>
    \/ \E out \in StoreAnswers, vizLoaded \in BOOLEAN :
          /\ AskExecute(out, vizLoaded)
          /\ UNCHANGED <<connVars, schemaCache, intro, others, callVars>>
    \/ AskReturn /\ UNCHANGED <<connVars, schemaCache, intro, others, llmClient>>

Spec == Init /\ [][Next]_vars

\* what a store answers to a schema fetch at present
IntroAnswers(name) ==
    {[err |-> "store unreachable", schema |-> ""],
     [err |-> Nil, schema |-> storeSchema[name]]}

introOthers ==
    <<sqlVars, gen, mongoVars, lockVars, cacheCall, refMap, snap, route, regVars, ask, callVars>>

\* connection setup, schema changes and cache clearing between the runs of
\* introspection; the runs with their goroutines
NextIntro ==
    \/ \E name \in PostgresNames, up \in BOOLEAN :
          /\ intro.caller = "idle" /\ intro.pending = {}
          /\ ConnectPostgres(name, up)
          /\ UNCHANGED <<schemaCache, mongoSchemaCache, intro, storeSchema, introOthers>>
    \/ \E name \in MongoNames, dbName \in DBNames, up \in BOOLEAN :
          /\ intro.caller = "idle" /\ intro.pending = {}
          /\ ConnectMongo(name, dbName, up)
          /\ UNCHANGED <<schemaCache, mongoSchemaCache, intro, storeSchema, introOthers>>
    \/ \E name \in StoreNames :
          /\ intro.caller = "idle" /\ intro.pending = {}
          /\ SchemaChange(name)
          /\ UNCHANGED <<connVars, schemaCache, mongoSchemaCache, intro, introOthers>>
    \/ /\ intro.caller = "idle" /\ intro.pending = {}
       /\ ClearSchemaCache
       /\ UNCHANGED <<connVars, storeSchema, introOthers>>
    \/ \E done \in BOOLEAN :
          /\ IntrospectAllSchemasWithContext(done)
          /\ UNCHANGED <<connVars, storeSchema, introOthers>>
    \/ CtxCancel /\ UNCHANGED <<connVars, storeSchema, introOthers>>
    \/ \E cfg \in intro.pending : \E live \in IntroAnswers(cfg.Name) :
          /\ IntrospectStore(cfg, live)
          /\ UNCHANGED <<connVars, storeSchema, introOthers>>
    \/ IntrospectClose /\ UNCHANGED <<connVars, storeSchema, introOthers>>
    \/ IntrospectReturn /\ UNCHANGED <<connVars, storeSchema, introOthers>>

SpecIntro == Init /\ [][NextIntro]_vars

\* the goroutines of a run are scheduled and the caller's receive is served
IntroFairness ==
    /\ WF_vars(\E cfg \in intro.pending : \E live \in IntroAnswers(cfg.Name) :
                  IntrospectStore(cfg, live) /\ UNCHANGED <<connVars, storeSchema, introOthers>>)
    /\ WF_vars(IntrospectClose /\ UNCHANGED <<connVars, storeSchema, introOthers>>)
    /\ WF_vars(IntrospectReturn /\ UNCHANGED <<connVars, storeSchema, introOthers>>)

SpecIntroFair == SpecIntro /\ IntroFairness

RegConfigs ==
    {[Name |-> n, Type |-> t, DBName |-> IF t = Mongo THEN "school" ELSE ""] :
        n \in StoreNames, t \in {Postgres, Mongo}}

InitReg == Init

regOthers ==
    <<sqlVars, gen, mongoVars, cacheVars, lockVars, mongoSchemaCache, intro, ask, route,
      callVars, storeSchema>>

NextReg ==
    \/ \E g \in Goroutines, cfg \in RegConfigs, up \in BOOLEAN :
          /\ RegBegin(g, IF cfg.Type = Postgres THEN "ConnectPostgres"
                         ELSE "ConnectMongo", cfg, up)
          /\ UNCHANGED regOthers
    \/ \E g \in Goroutines :
          RegBegin(g, "IntrospectAllSchemas", NoDB, FALSE) /\ UNCHANGED regOthers
    \/ \E g \in Goroutines, name \in StoreNames :
          /\ RegBegin(g, "Lookup", [NoDB EXCEPT !.Name = name], FALSE)
          /\ UNCHANGED regOthers
    \/ \E g \in Goroutines : MapAssignEnter(g) /\ UNCHANGED regOthers
    \/ \E g \in Goroutines : MapAssignLeave(g) /\ UNCHANGED regOthers
    \/ \E g \in Goroutines : DbConnect(g) /\ UNCHANGED regOthers
    \/ \E g \in Goroutines : RangeEnter(g) /\ UNCHANGED regOthers
    \/ \E g \in Goroutines : RangeNext(g) /\ UNCHANGED regOthers
    \/ \E g \in Goroutines : RangeLeave(g) /\ UNCHANGED regOthers
    \/ \E g \in Goroutines : LookupEnter(g) /\ UNCHANGED regOthers
    \/ \E g \in Goroutines : LookupLeave(g) /\ UNCHANGED regOthers
    \/ ConcurrentMapFault /\ UNCHANGED regOthers

SpecReg == InitReg /\ [][NextReg]_vars

(***************************************************************************)
(* Properties of Ask                                                       *)
(***************************************************************************)
Accepted(kind, text) ==
    IF kind = Postgres THEN ValidateSQL(text) = Nil ELSE ValidateMongo(text) = Nil

Ran(stage) == \E i \in DOMAIN ask.trace : ask.trace[i] = stage

\* C1: a store adapter is called only with the cleaned text of this call,
\* after the validator of the store kind has accepted it; a call whose
\* cleaned text the validator rejects ends in an error without any adapter
\* call.
C1_ValidatedBeforeExecution ==
    /\ \A i \in DOMAIN ask.adapterCalls :
          /\ Ran("validate")
          /\ ask.adapterCalls[i].text = ask.query
          /\ Accepted(ask.targetDB.Type, ask.adapterCalls[i].text)
    /\ (Ran("validate") /\ ~Accepted(ask.targetDB.Type, ask.query)) =>
          /\ ask.pc = "done" /\ ask.err # Nil
          /\ ask.adapterCalls = <<>>

C1_Witness ==
    /\ ask.pc = "done" /\ ask.err = Nil /\ ask.records = <<"status=success">>
    /\ ask.adapterCalls # <<>>
    /\ ask.adapterCalls[1].adapter = "InsertMongo"

\* C2: a finished Ask call has a nil error, or an error and no records.
C2_RecordsOrError ==
    ask.pc = "done" => (ask.err = Nil \/ ask.records = NoRecords)

C2_Witness ==
    /\ ask.pc = "done" /\ ask.err = "store error" /\ ask.records = NoRecords
    /\ ask.adapterCalls # <<>> /\ ask.adapterCalls[1].adapter = "QueryPostgres"

OnlyInputRan ==
    /\ ask.pc = "done" /\ ask.records = NoRecords
    /\ ask.trace = <<"input">> /\ ask.llmCalls = 0 /\ ask.adapterCalls = <<>>

\* C3: an empty prompt ends the call with the empty-input error, and a
\* prompt asked while every cached schema is empty (or none is cached) ends
\* it with the schema-not-ready error; neither runs the router, the backend
\* or an adapter.
C3_InputChecks ==
    ask.pc # "idle" =>
        /\ ask.userPrompt = "" => OnlyInputRan /\ ask.err = "prompt is empty"
        /\ (ask.userPrompt # "" /\ \A n \in DOMAIN ask.schemas : ask.schemas[n] = "")
              => OnlyInputRan /\ ask.err = "schema is empty"

C3_Witness ==
    /\ ask.userPrompt # "" /\ DOMAIN ask.schemas = {"lms_db", "students_db"}
    /\ \A n \in DOMAIN ask.schemas : ask.schemas[n] = ""
    /\ ask.pc = "done" /\ ask.err = "schema is empty"

RelationalStages == <<"input", "route", "build", "generate", "clean", "validate", "execute">>

DocumentStages ==
    <<"input", "route", "build", "generate", "clean", "validate", "parse", "execute">>

IsPrefix(s, t) == Len(s) <= Len(t) /\ s = SubSeq(t, 1, Len(s))

\* C4: the stages of a call run once each in the order route, build,
\* generate, clean, validate, parse, execute; a failed call has stopped at
\* the stage that failed, a successful one has run them all, and the
\* backend is called at most once.
C4_StageOrder ==
    LET stages == IF ask.targetDB.Type = Mongo THEN DocumentStages ELSE RelationalStages
        ended == ask.pc \in {"idle", "done"}
    IN  /\ IsPrefix(ask.trace, stages)
        /\ ask.llmCalls <= 1
        /\ ask.llmCalls = Cardinality({i \in DOMAIN ask.trace : ask.trace[i] = "generate"})
        /\ ask.err # Nil => ask.pc = "done"
        /\ (ask.pc = "done" /\ ask.err = Nil) => ask.trace = stages
        /\ Len(ask.trace) < Len(stages) => (ended <=> (ask.trace = <<>> \/ ask.err # Nil))

C4_Witness ==
    /\ ask.pc = "done" /\ ask.err = "llm generation failed"
    /\ ask.trace = <<"input", "route", "build", "generate">>
    /\ ask.targetDB.Type = Mongo

IsDeletePayload(text) ==
    LET d == Decode(text)
    IN  /\ d.kind = "object" /\ d.operation = JStr("delete") /\ d.Operation = Absent
        /\ d.collection.t = "string" /\ d.filter.t = "object"

SpecForbidden == {"drop", "truncate", "alter", "delete", "create", "grant", "revoke"}

SpecAllowed == {"select", "insert", "update"}

\* C5: ValidateSQL rejects every text that contains a forbidden word in any
\* letter case and with any surrounding whitespace, accepts a text only if
\* its trimmed, lower-cased form begins with select, insert or update, and
\* accepts select text of any letter case that holds no forbidden word.
C5_ValidateSQLPolicy ==
    sqlErr # "pending" =>
        LET q == ToLower(TrimSpace(sqlQuery))
            forbidden == \E k \in SpecForbidden : Contains(ToLower(sqlQuery), k)
        IN  /\ forbidden => sqlErr # Nil
            /\ sqlErr = Nil => \E op \in SpecAllowed : HasPrefix(q, op)
            /\ (HasPrefix(q, "select") /\ ~forbidden) => sqlErr = Nil

C5_Witness ==
    /\ sqlQuery = " \n\tSeLeCt Truncate \n\t"
    /\ sqlErr = "query contains forbidden operation: truncate"

Companions(op) ==
    CASE op = "find" -> {"filter"}
      [] op = "delete" -> {"filter"}
      [] op = "insert" -> {"document"}
      [] op = "update" -> {"filter", "update"}
      [] op = "aggregate" -> {"pipeline"}
      [] OTHER -> {}

\* the error texts that name the key k as missing
NamesField(err, k) ==
    \/ err = "missing required field: " \o k
    \/ \E op \in {"find", "insert", "update", "delete", "aggregate"} :
          err = op \o " operation requires " \o k \o " field"

LacksCompanion(d, ops) ==
    /\ d.kind = "object"
    /\ d.operation.t = "string"
    /\ d.operation.s \in ops
    /\ \E k \in Companions(d.operation.s) : d[k].t = "absent"

RejectedNamingMissingField(d) ==
    /\ mongoErr # Nil
    /\ \E k \in {"operation", "collection"} \cup Companions(d.operation.s) :
          d[k].t = "absent" /\ NamesField(mongoErr, k)

SpecOperations == {"find", "insert", "update", "delete", "aggregate"}

\* C8: a payload without a collection key, or whose operation is not one of
\* the operation enumeration, is rejected; the well-formed find is accepted.
C8_CollectionAndOperation ==
    mongoErr # "pending" =>
        LET d == Decode(mongoText)
        IN  /\ d.collection.t = "absent" => mongoErr # Nil
            /\ ~(d.operation.t = "string" /\ d.operation.s \in SpecOperations)
                  => mongoErr # Nil
            /\ mongoText = "{\"operation\":\"find\",\"collection\":\"orders\",\"filter\":{}}"
                  => mongoErr = Nil

C8_Witness ==
    /\ mongoText = "{\"operation\":\"find\",\"collection\":\"orders\",\"filter\":{}}"
    /\ mongoErr = Nil

\* C9 as stated: a present collection that is empty or not text, and a
\* present operation that is empty, are rejected.
C9_Original ==
    mongoErr # "pending" =>
        LET d == Decode(mongoText)
        IN  /\ (d.collection = JStr("") \/ d.collection.t \notin {"absent", "string"})
                  => mongoErr # Nil
            /\ d.operation = JStr("") => mongoErr # Nil

\* C9 (amended): a present collection that is not text, and a present
\* operation that is empty, are rejected; an empty collection text is not:
\* the payload is accepted exactly when it would be with a named collection.
C9_CollectionTyped ==
    mongoErr # "pending" =>
        LET d == Decode(mongoText)
        IN  /\ d.collection.t \notin {"absent", "string"} => mongoErr # Nil
            /\ d.operation = JStr("") => mongoErr # Nil
            /\ d.collection = JStr("") =>
                  (mongoErr = Nil <=>
                     /\ d.operation.t = "string"
                     /\ d.operation.s \in {"find", "insert", "update", "aggregate"}
                     /\ \A k \in Companions(d.operation.s) : d[k].t # "absent")

C9_Witness ==
    /\ mongoText = "{\"operation\":\"find\",\"collection\":\"\",\"filter\":{}}"
    /\ mongoErr = Nil
(***************************************************************************)
(* Properties of the schema cache                                          *)
(***************************************************************************)
\* C10: after any sequence of Put, Get, GetAll, Size and Clear the cache is
\* the reference map (Put with a name overwrites, Put without a name and
\* the three readers change nothing, Clear empties), Get returns the latest
\* text put under the name since the last Clear or ("", false), and Size is
\* the number of keys.
C10_CacheIsReferenceMap ==
    /\ schemaCache = refMap
    /\ "" \notin DOMAIN refMap
    /\ cacheCall.op = "Get" =>
          IF cacheCall.name \in DOMAIN refMap
          THEN cacheCall.ok /\ cacheCall.text = refMap[cacheCall.name]
          ELSE ~cacheCall.ok /\ cacheCall.text = ""
    /\ cacheCall.op = "GetAll" => cacheCall.all = refMap
    /\ cacheCall.op = "Size" => cacheCall.size = Cardinality(DOMAIN refMap)

C10_Witness ==
    /\ cacheCall.op = "Get" /\ cacheCall.name = "lms_db" /\ cacheCall.ok
    /\ cacheCall.text = ""
    /\ DOMAIN schemaCache = {"lms_db", "students_db"}

\* C11: GetAll returns an independent snapshot.  The mapping it returns is
\* the cache content at the instant of the call; no step changes the cache
\* and a snapshot already returned together, so a later Put or Clear leaves
\* the snapshot as it was and a caller that adds, changes or removes entries
\* of the snapshot leaves the cache as it was; and the cache stays the
\* reference map, which the caller's changes of the snapshot never touch, so
\* Get, GetAll and Size answer afterwards as if the snapshot had not changed.
C11_Step ==
    /\ (cacheCall'.op = "GetAll" /\ cacheCall.op # "GetAll") =>
            (snap'.held /\ snap'.m = schemaCache /\ snap'.m = cacheCall'.all)
    /\ schemaCache' # schemaCache => snap'.m = snap.m
    /\ snap'.m # snap.m => (schemaCache' = schemaCache /\ refMap' = refMap)

C11_SnapshotIndependent ==
    /\ [](schemaCache = refMap /\ (cacheCall.op = "GetAll" => cacheCall.all = refMap))
    /\ [][C11_Step]_vars

\* a snapshot was returned, the cache was then cleared and filled again and
\* the caller changed the snapshot: the two differ and a read follows
C11_Witness ==
    /\ snap.held /\ cacheCall.op = "Size" /\ cacheCall.size = 1
    /\ DOMAIN snap.m = {"lms_db", "students_db"}
    /\ DOMAIN schemaCache = {"students_db"}
    /\ snap.m["students_db"] # schemaCache["students_db"]

(***************************************************************************)
(* Properties of the schema cache called by goroutines                     *)
(***************************************************************************)
WriterInside(g) == gor[g].op \in Writers /\ gor[g].pc \in {"body", "store", "unlock"}

\* C12: Clear is atomic for the calls that run concurrently with it.  The
\* writers take effect one after the other in the order in which they
\* return: whenever no writer is between its Lock and its Unlock the cache
\* is the reference map, so a Put that returns after the Clear is present.
\* A Get, GetAll or Size that has returned answers as the reference map was
\* at one instant of the call, so a GetAll never returns a part of the
\* entries a concurrent Clear removed.
C12_ClearAtomic ==
    /\ (\A g \in Goroutines : ~WriterInside(g)) => schemaCache = refMap
    /\ \A g \in Goroutines :
          gor[g].pc = "idle" =>
             /\ gor[g].op = "GetAll" => gor[g].result \in gor[g].seen
             /\ (gor[g].op = "Get" /\ gor[g].name # "") =>
                   \E m \in gor[g].seen :
                      IF gor[g].name \in DOMAIN m
                      THEN gor[g].ok /\ gor[g].schema = m[gor[g].name]
                      ELSE ~gor[g].ok /\ gor[g].schema = ""
             /\ gor[g].op = "Size" =>
                   \E m \in gor[g].seen : gor[g].size = Cardinality(DOMAIN m)

\* a GetAll began while the cache held two entries, a Clear of the other
\* goroutine returned during the call, and the GetAll returned the cleared
\* cache; the other goroutine then waits with a Put for a reader to leave
C12_Witness ==
    /\ gor["g1"].op = "GetAll" /\ gor["g1"].pc = "idle"
    /\ gor["g1"].result = EmptyMap
    /\ \E m \in gor["g1"].seen : DOMAIN m = {"lms_db", "students_db"}
    /\ gor["g2"].op = "Put" /\ gor["g2"].pc = "lock"

(***************************************************************************)
(* Properties of the Router                                                *)
(***************************************************************************)
Routed == route.pc = "done"

SpecKeywords == Tokens(route.prompt) \ StopWords

\* the results of the evaluation tasks that have ended, in arrival order
Results == route.merged \o route.channel

ResultOf(rs, n) == rs[CHOOSE i \in DOMAIN rs : rs[i].name = n]

Has_Result(rs, n) == \E i \in DOMAIN rs : rs[i].name = n

Evaluated == \A n \in DOMAIN route.stores : Has_Result(Results, n)

SchemaOf(n) == ToLower(ResultOf(Results, n).got.schema)

\* tok is a whole word of the schema text of store n and of no other store
OnlyWholeWordOf(tok, n) ==
    {m \in DOMAIN route.stores : WordOccurrences(SchemaOf(m), tok) # {}} = {n}

Selected(n) == route.err = Nil /\ route.db.Name = n

MergedBeforeReturn(n) == Has_Result(route.merged, n)

Scenario(prompt, n) ==
    (/\ route.prompt = prompt
     /\ DOMAIN route.stores = {"lms_db", "students_db"}
     /\ MergedBeforeReturn(n)
     /\ ResultOf(Results, "students_db").got.schema = "students(id, name, age)"
     /\ ResultOf(Results, "lms_db").got.schema = "courses(title, duration)\n")
        => Selected(n)

TopScore(rs) == CHOOSE x \in {rs[i].score : i \in DOMAIN rs} :
                    \A i \in DOMAIN rs : rs[i].score <= x

FirstAtTop(rs) ==
    rs[CHOOSE i \in DOMAIN rs :
          /\ rs[i].score = TopScore(rs)
          /\ \A j \in DOMAIN rs : rs[j].score = TopScore(rs) => i <= j]

DecidedBy(rs) ==
    IF rs = <<>> \/ TopScore(rs) = 0 THEN route.err = "NoMatch" /\ route.db = NoDB
    ELSE Selected(FirstAtTop(rs).name)

\* C15: once the overall timeout has fired, Route has returned without
\* waiting for the evaluations still outstanding, and what it returned is
\* decided by the results merged before the timeout: no later step merges a
\* result or changes the store or the failure returned.
C15_Step ==
    route.timedOut =>
        /\ route'.merged = route.merged /\ route'.best = route.best
        /\ route'.db = route.db /\ route'.err = route.err /\ route'.pc = "done"

C15_TimeoutAbandons ==
    /\ [](route.timedOut => (Routed /\ DecidedBy(route.merged)))
    /\ [][C15_Step]_vars

\* the timeout fired before the result of students_db was merged; that
\* result, with a score above the one returned, arrived late and was dropped
C15_Witness ==
    /\ route.timedOut /\ route.late = {"students_db"}
    /\ route.channel # <<>>
    /\ route.channel[Len(route.channel)].score > route.best.score
    /\ Selected("lms_db")

FetchFailed(res) == res.got.err # Nil \/ res.got.schema = ""

\* C16: a store whose schema fetch fails or returns an empty text scores 0
\* and nothing more comes of it: Route fails only with EmptyPrompt,
\* NoStoresRegistered or NoMatch, and when such a result has been merged
\* together with the result of a store that scores above 0, Route selects a
\* store, as the scored results alone dictate.
C16_FetchFailureAbsorbed ==
    /\ \A i \in DOMAIN Results : FetchFailed(Results[i]) => Results[i].score = 0
    /\ Routed =>
          /\ route.err \in {Nil, "EmptyPrompt", "NoStoresRegistered", "NoMatch"}
          /\ (\E i \in DOMAIN route.merged : FetchFailed(route.merged[i])) =>
                DecidedBy(SelectSeq(route.merged, LAMBDA res : ~FetchFailed(res)))

\* the schema fetch of students_db failed, its result was merged first, and
\* lms_db was selected
C16_Witness ==
    /\ Routed /\ ~route.timedOut /\ Len(route.merged) = 2
    /\ route.merged[1].name = "students_db" /\ route.merged[1].got.err # Nil
    /\ Selected("lms_db")

CancellableStages == {"route", "generate", "validate", "execute"}

\* a step that starts one of the stages that a cancellation is to stop
StartsStage ==
    /\ Len(ask'.trace) = Len(ask.trace) + 1
    /\ ask'.trace[Len(ask'.trace)] \in CancellableStages

\* C17: once the caller has cancelled the call in progress, none of the
\* stages route, generate, validate and execute starts.
C17_Original == [][cancelled => ~StartsStage]_vars

\* what GenerateQuery makes of the prompt with a given template manager: the
\* prepared request, or the failure to prepare it
Prepared(tm) == IF tm.loaded THEN "request" ELSE "template not found"

\* C18: a call's generation request is the one it would have had running
\* alone: it is prepared with the templates that this call loaded, whatever
\* the other calls on the same client do.
C18_Original == Ran("generate") => Prepared(ask.prepared) = Prepared(ask.tm)

\* a step keeps the kind recorded for every name already registered
KindKept ==
    \A n \in DOMAIN RegisteredDBs :
        /\ n \in DOMAIN RegisteredDBs'
        /\ RegisteredDBs'[n].Type = RegisteredDBs[n].Type

\* C19: each registry name maps to one descriptor, the one of that name,
\* and no ConnectPostgres, ConnectMongo or RegisterDB changes the kind
\* recorded for a name that is already registered.
C19_Original ==
    /\ [](\A n \in DOMAIN RegisteredDBs : RegisteredDBs[n].Name = n)
    /\ [][KindKept]_vars

\* C20: no two goroutines are inside the registry at once when one of them
\* writes it, and the runtime never stops the program over the registry.
C20_Original ==
    /\ \A g, h \in Goroutines : ~Racing(g, h)
    /\ ~fatal

\* a step that processes one more result
Processes == Len(route'.merged) = Len(route.merged) + 1

\* C21: the best store so far has a score above 0, no result processed has
\* a strictly higher score, and a result processed later with a score equal
\* to the best so far does not replace it; the store Route returns is the
\* best store of the results processed.
C21_BestOfProcessed ==
    /\ [](route.best.name # "" =>
            /\ route.best.score > 0
            /\ Has_Result(route.merged, route.best.name)
            /\ ResultOf(route.merged, route.best.name).score = route.best.score
            /\ \A i \in DOMAIN route.merged : route.merged[i].score <= route.best.score)
    /\ [](Routed /\ route.err = Nil => Selected(route.best.name))
    /\ [][Processes /\ route.best.name # ""
            /\ route'.merged[Len(route'.merged)].score <= route.best.score
          => route'.best = route.best]_vars

\* two stores tied at a score above 0 and the one processed first was returned
C21_Witness ==
    /\ Routed /\ route.err = Nil /\ Len(route.merged) = 2
    /\ route.merged[1].score = route.merged[2].score /\ route.merged[1].score > 0
    /\ Selected(route.merged[1].name)

\* the adapter that the operation of a document payload names
AdapterOf(op) ==
    CASE op = "find" -> "QueryMongo"
      [] op = "insert" -> "InsertMongo"
      [] op = "update" -> "UpdateMongo"
      [] op = "aggregate" -> "AggregateMongo"
      [] OTHER -> "none"

\* the operation the document validator read in the payload it accepted
ValidatedOperation == TextOf(Decode(ask.validated).operation, "")

\* C22: a successful Ask has invoked one adapter, once, and for a document
\* store it is the adapter named by the operation of the validated payload;
\* a failed Ask has invoked at most one adapter.
C22_Original ==
    ask.pc = "done" =>
        /\ Len(ask.adapterCalls) <= 1
        /\ ask.err = Nil =>
              /\ Len(ask.adapterCalls) = 1
              /\ ask.targetDB.Type = Postgres =>
                    ask.adapterCalls[1].adapter \in {"QueryPostgres", "Execute"}
              /\ ask.targetDB.Type = Mongo =>
                    ask.adapterCalls[1].adapter = AdapterOf(ValidatedOperation)

CollectionUnresolved == "could not infer MongoDB collection name from prompt"

\* the collection that the payload of the backend names
PayloadCollection == TextOf(Decode(ask.query).collection, "")

\* C23: for a document store, a call whose guess of the collection is empty
\* still invokes the backend; Ask fails with the collection-unresolved error
\* only when the payload's collection and the guess are both empty; the
\* adapter is called with the payload's collection or, when that is empty,
\* with the guess.
C23_Original ==
    (ask.pc = "done" /\ ask.targetDB.Type = Mongo /\ Ran("build")) =>
        /\ ask.collection = "" => Ran("generate")
        /\ ask.err = CollectionUnresolved =>
              Ran("clean") /\ ask.collection = "" /\ PayloadCollection = ""
        /\ ask.adapterCalls # <<>> =>
              ask.adapterCalls[1].collection =
                  IF PayloadCollection # "" THEN PayloadCollection ELSE ask.collection

\* the adapter reached the store and the store did not fail
StoreAnswered ==
    /\ ask.targetDB.Name \in pgPools /\ ask.answer.err = Nil

\* C24: for a relational store, a validated query that begins with select
\* (any case, after trimming) goes to the read adapter and the rows the
\* store answers are the result; any other validated query goes to the
\* write adapter and the result is one record with the affected-row count;
\* when the adapter fails Ask returns an error and no records.
C24_RelationalDispatch ==
    (ask.pc = "done" /\ ask.targetDB.Type = Postgres /\ Ran("execute")) =>
        LET isSelect == HasPrefix(ToLower(TrimSpace(ask.validated)), "select")
        IN  /\ Len(ask.adapterCalls) = 1
            /\ ask.adapterCalls[1].text = ask.validated
            /\ ask.adapterCalls[1].adapter = IF isSelect THEN "QueryPostgres" ELSE "Execute"
            /\ StoreAnswered =>
                  /\ ask.err = Nil
                  /\ ask.records = IF isSelect THEN ask.answer.rows
                                   ELSE <<"rows_affected=" \o ToString(ask.answer.n)>>
            /\ ~StoreAnswered => ask.err # Nil /\ ask.records = NoRecords

\* an update was sent to the write adapter and two rows were affected
C24_Witness ==
    /\ ask.pc = "done" /\ ask.targetDB.Type = Postgres
    /\ ask.validated = "update students set age = 21"
    /\ ask.adapterCalls # <<>> /\ ask.adapterCalls[1].adapter = "Execute"
    /\ ask.records = <<"rows_affected=2">> /\ ask.err = Nil

\* the last run of introspection returned nil, all its goroutines have
\* ended, and no schema has changed since it began
Refreshed ==
    /\ intro.caller = "idle" /\ intro.result = Nil /\ intro.pending = {}
    /\ intro.at = storeSchema

\* C25: after a run of introspection that began after the last schema
\* change, the cache entry of a store is the schema text the store has
\* now, whether or not the cache was cleared before the run.
C25_Original ==
    Refreshed => \A n \in DOMAIN schemaCache : schemaCache[n] = storeSchema[n]

\* C26 as claimed: whenever a step of the call has failed, template loading
\* and the visualization step included, Ask has returned an error.
C26_Original == ask.failures # {} => (ask.pc = "done" /\ ask.err # Nil)

\* the failures that Ask logs and passes over
Logged == {"templates", "visualize"}

\* C26 (amended): a failure to load the templates and a failure of the
\* visualization step are logged and the call goes on; any other failing
\* step ends the call at once with an error and no records, so that a call
\* holds at most one such failure.
C26_FailuresReturned ==
    /\ Cardinality(ask.failures \ Logged) <= 1
    /\ ask.failures \ Logged # {} =>
          ask.pc = "done" /\ ask.err # Nil /\ ask.records = NoRecords
    /\ (ask.pc = "done" /\ ask.err # Nil) => ask.failures \ Logged # {}

\* the templates did not load, the call went on and failed at generation
C26_Witness ==
    /\ ask.pc = "done" /\ ask.failures = {"templates", "generate"}
    /\ ask.err = "llm generation failed"
    /\ ask.trace = <<"input", "route", "build", "generate">>

(***************************************************************************)
(* Cleaning the fenced generation output                                   *)
(***************************************************************************)
\* the cleaning step has run on the wrapped output
Cleaned == ask.pc = "validate" /\ ask.raw = Wrap(gen)

\* the cleaner of the call's store kind leaves the output itself unchanged
AlreadyClean == Clean(ask.targetDB.Type, gen.text) = gen.text

\* C27 as stated: for every generation output, cleaning the output wrapped
\* in fence lines yields exactly the output.
C27_Original == Cleaned => ask.query = gen.text

\* the opening fence line is one the cleaner of the store kind strips: any
\* tag for relational text, no tag or json for a document payload
KnownFence == ask.targetDB.Type = Mongo => gen.tag \in {"", "json"}

\* C27: for every generation output that the cleaner leaves unchanged,
\* cleaning the output wrapped in fence lines (for a document payload: an
\* opening fence line with no tag or with the tag json) yields exactly the
\* output.
C27_CleanRoundTrip == (Cleaned /\ AlreadyClean /\ KnownFence) => ask.query = gen.text

\* a document payload of several lines, wrapped with the json tag, cleaned
C27_Witness ==
    /\ Cleaned /\ AlreadyClean
    /\ ask.targetDB.Type = Mongo /\ gen.tag = "json"
    /\ gen.text = "{\n  \"operation\": \"find\"\n}"
    /\ ask.query = gen.text

(***************************************************************************)
(* IntrospectAllSchemasWithContext returns                                 *)
(***************************************************************************)
\* C28: a call of IntrospectAllSchemasWithContext always returns, whatever
\* the number of stores and whichever of them succeed, fail or find the
\* context cancelled: the caller's receive on errChan completes, and every
\* per-store goroutine ends, none waits forever to send its error.
C28_AlwaysReturns ==
    /\ (intro.caller = "waiting") ~> (intro.caller = "idle")
    /\ (intro.pending # {}) ~> (intro.pending = {})

\* a call has returned the first of two errors, one of them the cancelled
\* context's, and the goroutine of the second has ended after the return
C28_Witness ==
    /\ intro.caller = "idle" /\ intro.result \notin {"none", Nil}
    /\ intro.ctxDone /\ Cardinality(intro.failed) >= 2
    /\ intro.late # {} /\ intro.pending = {} /\ intro.closed
    /\ Len(intro.errChan) >= 1

(***************************************************************************)
(* What IntrospectAllSchemasWithContext returns and what is cached then    *)
(***************************************************************************)
\* a call is running: the caller waits or goroutines of the call are left
InRun == intro.caller = "waiting" \/ intro.pending # {}

\* the stores whose goroutine has ended without an error
Succeeded ==
    {n \in DOMAIN RegisteredDBs : RegisteredDBs[n] \notin intro.pending} \ intro.failed

Returns == intro.caller = "waiting" /\ intro'.caller = "idle"

\* C29: IntrospectAllSchemasWithContext returns nil exactly when no store's
\* introspection failed; when it returns nil every registered store with a
\* non-empty name has its entry in the schema cache at that moment; the
\* stores that succeeded are cached whatever the call returns, also those
\* whose goroutine ends after the call has returned an error.
C29_NilIffAllCached ==
    /\ [][Returns =>
            /\ intro'.result = Nil <=> intro'.failed = {}
            /\ intro'.result = Nil => intro'.pending = {}
            /\ intro'.result = Nil =>
                  \A n \in DOMAIN RegisteredDBs' \ {""} : n \in DOMAIN schemaCache']_vars
    /\ [](InRun => Succeeded \subseteq DOMAIN schemaCache)
    /\ [][InRun => Succeeded' \subseteq DOMAIN schemaCache']_vars

\* the call has returned the error of one store and the other store, which
\* succeeded, was cached by a goroutine that ended after the return
C29_Witness ==
    /\ intro.caller = "idle" /\ intro.result \notin {"none", Nil}
    /\ intro.pending = {} /\ Cardinality(intro.failed) = 1
    /\ \E n \in intro.late \ intro.failed :
          n \in DOMAIN schemaCache /\ schemaCache[n] = storeSchema[n]

(***************************************************************************)
(* The registry keeps its entries                                          *)
(***************************************************************************)
\* the store of the descriptor has a live connection
Connected(cfg) ==
    IF cfg.Type = Postgres THEN cfg.Name \in pgPools ELSE cfg.Name \in MongoClients

\* the Router can score the store: its schema text is at hand
Routable(cfg) ==
    IF cfg.Type = Postgres THEN GetCachedSchema(schemaCache, cfg.Name).ok
    ELSE cfg.Name \in DOMAIN mongoSchemaCache

NotFound ==
    {"postgres pool not found", "query execution failed: postgres pool not found",
     "mongo client not found"}

\* the call in progress was routed to a registered store with no connection
RoutedUnconnected ==
    /\ ask.targetDB # NoDB /\ ask.targetDB.Name \in DOMAIN RegisteredDBs
    /\ ~Connected(ask.targetDB)

\* C30: no step removes a registry entry, a connection is always that of a
\* registered store (failed connections and closed ones leave the entry),
\* and an Ask routed to a registered store with no connection returns an
\* error and no records: when it gets to execution, the adapter's
\* not-found error.
C30_RegistryKept ==
    /\ [][DOMAIN RegisteredDBs \subseteq DOMAIN RegisteredDBs']_vars
    /\ [](pgPools \cup MongoClients \subseteq DOMAIN RegisteredDBs)
    /\ []((ask.pc = "done" /\ RoutedUnconnected) =>
             /\ ask.err # Nil /\ ask.records = NoRecords
             /\ Ran("execute") => ask.err \in NotFound)

\* the relational store was connected, introspected and closed; the Ask
\* routed to it got to execution and failed there
C30_Witness ==
    /\ ask.pc = "done" /\ RoutedUnconnected /\ Routable(ask.targetDB)
    /\ ask.targetDB.Type = Postgres
    /\ Ran("execute") /\ ask.err \in NotFound /\ ask.records = NoRecords
====
